---- MODULE Spec2Model ----
(***************************************************************************)
(* American roulette: the bet ledger, the bet validator, the payout engine *)
(* and the round (spin) sequence of lamarrg/roulette.                      *)
(*                                                                         *)
(* Slot labels are integers: 0..36 stand for themselves and DoubleZero     *)
(* stands for the string label '00' (a label that is not a number, so it   *)
(* is never an integer in 1..36 and never equal to 0).                     *)
(***************************************************************************)
EXTENDS Integers, Sequences, FiniteSets, TLC

VARIABLES
  balance,      \* gameState.state.balance
  currentBets,  \* gameState.state.currentBets (the round ledger)
  history,      \* gameState.state.history, newest first
  lastResult,   \* gameState.state.lastResult
  isSpinning,   \* gameState.state.isSpinning
  settings,     \* gameState.state.settings
  stored,       \* localStorage: availability, items, warnings logged by save
  spin,         \* the position and the locals of the running RouletteGame.spin()
  rounds,       \* number of rounds started so far
  lastOp,       \* the last command issued and what it returned
  events,       \* the notifications emitted by the last command, in order
  listeners,    \* gameState.listeners: per event, the callbacks in registration order
  calls,        \* the callback invocations the last command made, in order
  chipDenominations,  \* RouletteConfig.chipDenominations (a mutable array)
  components    \* RouletteGame.components: the chip selector and the table

\* What belongs to the collaborators of the core.
ui == <<listeners, calls, chipDenominations, components>>

vars == <<balance, currentBets, history, lastResult, isSpinning, settings, stored,
          spin, rounds, lastOp, events, ui>>

-----------------------------------------------------------------------------
(* Rule configuration (roulette-config.js)                                 *)

defaultBalance == 1000
minBet == 1
maxBet == 1000
tableMax == 10000
maxEntries == 50
\* The label '00', JavaScript's null and NaN, each written as an integer that
\* no number of the program takes; none of them enters any arithmetic.
DoubleZero == 37
null == -1
NaN == -2

wheelOrder ==
  << 0, 28, 9, 26, 30, 11, 7, 20, 32, 17, 5, 22, 34, 15, 3, 24, 36, 13, 1,
     DoubleZero, 27, 10, 25, 29, 12, 8, 19, 31, 18, 6, 21, 33, 16, 4, 23, 35, 14, 2 >>

betTypes ==
  [ straight |-> [payout |-> 35, numberCount |-> 1],
    split    |-> [payout |-> 17, numberCount |-> 2],
    street   |-> [payout |-> 11, numberCount |-> 3],
    corner   |-> [payout |-> 8,  numberCount |-> 4],
    line     |-> [payout |-> 5,  numberCount |-> 6],
    dozen    |-> [payout |-> 2,  numberCount |-> 12],
    column   |-> [payout |-> 2,  numberCount |-> 12],
    red      |-> [payout |-> 1,  numberCount |-> 18],
    black    |-> [payout |-> 1,  numberCount |-> 18],
    even     |-> [payout |-> 1,  numberCount |-> 18],
    odd      |-> [payout |-> 1,  numberCount |-> 18],
    low      |-> [payout |-> 1,  numberCount |-> 18],
    high     |-> [payout |-> 1,  numberCount |-> 18] ]

\* tableLayout.grid: rows top to bottom, columns left to right
tableLayoutGrid ==
  << <<3, 6, 9, 12, 15, 18, 21, 24, 27, 30, 33, 36>>,
     <<2, 5, 8, 11, 14, 17, 20, 23, 26, 29, 32, 35>>,
     <<1, 4, 7, 10, 13, 16, 19, 22, 25, 28, 31, 34>> >>

\* Variant: 17, a black number, is listed among the red ones too.
betSetsRed_with17 ==
  <<1, 3, 5, 7, 9, 12, 14, 16, 17, 18, 19, 21, 23, 25, 27, 30, 32, 34, 36>>

betSetsRed ==
  <<1, 3, 5, 7, 9, 12, 14, 16, 18, 19, 21, 23, 25, 27, 30, 32, 34, 36>>

betSetsBlack ==
  <<2, 4, 6, 8, 10, 11, 13, 15, 17, 20, 22, 24, 26, 28, 29, 31, 33, 35>>

betSetsEven == [i \in 1..18 |-> 2 * i]

betSetsOdd == [i \in 1..18 |-> 2 * i - 1]

betSetsLow == [i \in 1..18 |-> i]

betSetsHigh == [i \in 1..18 |-> 18 + i]

betSetsDozen1 == [i \in 1..12 |-> i]

betSetsColumn1 == [i \in 1..12 |-> 3 * i - 2]

betSetsColumn2 == [i \in 1..12 |-> 3 * i - 1]

betSetsColumn3 == [i \in 1..12 |-> 3 * i]

-----------------------------------------------------------------------------
(* Array helpers                                                           *)

Max(a, b) == IF a >= b THEN a ELSE b

\* Array.prototype.includes
includes(seq, x) == \E i \in 1..Len(seq) : seq[i] = x

\* bets.reduce((sum, bet) => sum + bet.amount, 0)
RECURSIVE sumAmounts(_)
sumAmounts(bets) ==
  IF bets = <<>> THEN 0 ELSE bets[1].amount + sumAmounts(Tail(bets))

\* [...nums].sort((x, y) => x - y)
sortAscending(nums) == SortSeq(nums, LAMBDA x, y : x < y)

-----------------------------------------------------------------------------
(* Bet validator (bet-manager.js)                                          *)

Ok == [valid |-> TRUE, error |-> ""]
Err(msg) == [valid |-> FALSE, error |-> msg]

validateBetAmount(amount) ==
  IF amount = NaN THEN Err("Invalid bet amount")
  ELSE IF amount < minBet THEN Err("Minimum bet is $1")
  ELSE IF amount > maxBet THEN Err("Maximum bet is $1000")
  ELSE Ok

validateBalance(bal, bets, amount) ==
  LET availableBalance == bal - sumAmounts(bets)
  IN  IF amount > availableBalance THEN Err("Insufficient balance") ELSE Ok

\* Variant: a total of exactly the table maximum is refused too.
validateTableMax_atLimit(bets, amount) ==
  IF sumAmounts(bets) + amount >= tableMax THEN Err("Table maximum is $10000") ELSE Ok

validateTableMax(bets, amount) ==
  LET newTotal == sumAmounts(bets) + amount
  IN  IF newTotal > tableMax THEN Err("Table maximum is $10000") ELSE Ok

areAllIntegers1To36(nums) ==
  \A i \in 1..Len(nums) : nums[i] # DoubleZero /\ nums[i] >= 1 /\ nums[i] <= 36

\* Variant: consecutive numbers count as adjacent across the end of a row.
validateSplitNumbers_acrossRows(nums) ==
  IF ~areAllIntegers1To36(nums)
  THEN Err("Split bets are only supported for numbers 1-36")
  ELSE LET sorted == sortAscending(nums)
       IN  IF sorted[2] # sorted[1] + 1 /\ sorted[2] # sorted[1] + 3
           THEN Err("Split requires two adjacent numbers")
           ELSE Ok

validateSplitNumbers(nums) ==
  IF ~areAllIntegers1To36(nums)
  THEN Err("Split bets are only supported for numbers 1-36")
  ELSE LET sorted == sortAscending(nums)
           a == sorted[1]
           b == sorted[2]
           isHorizontal == (b = a + 1) /\ (a % 3 # 0)
           isVertical == (b = a + 3)
       IN  IF ~isHorizontal /\ ~isVertical
           THEN Err("Split requires two adjacent numbers")
           ELSE Ok

\* Variant: the smallest number may sit in the last column of the grid.
validateCornerNumbers_anyColumn(nums) ==
  IF ~areAllIntegers1To36(nums)
  THEN Err("Corner bets are only supported for numbers 1-36")
  ELSE LET sorted == sortAscending(nums)
           n == sorted[1]
       IN  IF n > 32 \/ sorted # sortAscending(<<n, n + 1, n + 3, n + 4>>)
           THEN Err("Corner requires four numbers forming a 2x2 square")
           ELSE Ok

\* Variant: only the smallest number is looked at.
validateCornerNumbers_smallestOnly(nums) ==
  IF ~areAllIntegers1To36(nums)
  THEN Err("Corner bets are only supported for numbers 1-36")
  ELSE LET n == sortAscending(nums)[1]
       IN  IF n % 3 = 0 \/ n > 32
           THEN Err("Corner requires four numbers forming a 2x2 square")
           ELSE Ok

validateCornerNumbers(nums) ==
  IF ~areAllIntegers1To36(nums)
  THEN Err("Corner bets are only supported for numbers 1-36")
  ELSE LET sorted == sortAscending(nums)
           n == sorted[1]
           expected == sortAscending(<<n, n + 1, n + 3, n + 4>>)
           matches == \A idx \in 1..Len(expected) : expected[idx] = sorted[idx]
       IN  IF n % 3 = 0 \/ n > 32
           THEN Err("Corner requires four numbers forming a 2x2 square")
           ELSE IF ~matches
           THEN Err("Corner requires four numbers forming a 2x2 square")
           ELSE Ok

validateBet(type, numbers) ==
  IF type \notin DOMAIN betTypes THEN Err("Invalid bet type")
  ELSE IF Len(numbers) = 0 THEN Err("Invalid numbers")
  ELSE LET invalidNumbers == SelectSeq(numbers, LAMBDA num : ~includes(wheelOrder, num))
           uniqueNumbers == {numbers[i] : i \in 1..Len(numbers)}
       IN  IF Len(invalidNumbers) > 0 THEN Err("Invalid numbers: not on the wheel")
           ELSE IF Len(numbers) # betTypes[type].numberCount
           THEN Err("Wrong number count for bet type")
           ELSE IF Cardinality(uniqueNumbers) # Len(numbers)
           THEN Err("Duplicate numbers are not allowed")
           ELSE IF type = "split" /\ ~validateSplitNumbers(numbers).valid
           THEN validateSplitNumbers(numbers)
           ELSE IF type = "corner" /\ ~validateCornerNumbers(numbers).valid
           THEN validateCornerNumbers(numbers)
           ELSE Ok

-----------------------------------------------------------------------------
(* Bet ledger (bet-manager.js over game-state.js), as functions of the     *)
(* ledger, the balance and the identities in use                           *)

createBet(id, type, numbers, amount) ==
  [id |-> id, type |-> type, numbers |-> numbers, amount |-> amount]

NoBet == createBet(0, "", <<>>, 0)

\* Variant: the table maximum is checked before the balance.
placeBetValidation_tableMaxFirst(bal, bets, type, numbers, amount) ==
  IF ~validateBet(type, numbers).valid THEN validateBet(type, numbers)
  ELSE IF ~validateBetAmount(amount).valid THEN validateBetAmount(amount)
  ELSE IF ~validateTableMax(bets, amount).valid THEN validateTableMax(bets, amount)
  ELSE IF ~validateBalance(bal, bets, amount).valid THEN validateBalance(bal, bets, amount)
  ELSE Ok

\* The first failing validation of placeBet, or Ok.
placeBetValidation(bal, bets, type, numbers, amount) ==
  IF ~validateBet(type, numbers).valid THEN validateBet(type, numbers)
  ELSE IF ~validateBetAmount(amount).valid THEN validateBetAmount(amount)
  ELSE IF ~validateBalance(bal, bets, amount).valid THEN validateBalance(bal, bets, amount)
  ELSE IF ~validateTableMax(bets, amount).valid THEN validateTableMax(bets, amount)
  ELSE Ok

\* Variant: the bet is pushed on the ledger before the balance and table
\* maximum are validated.
placeBet_pushFirst(bal, bets, id, type, numbers, amount) ==
  LET v == placeBetValidation(bal, bets, type, numbers, amount)
      shapeOk == validateBet(type, numbers).valid /\ validateBetAmount(amount).valid
      pushed == Append(bets, createBet(id, type, numbers, amount))
  IN  IF ~v.valid
      THEN [success |-> FALSE, error |-> v.error, bet |-> NoBet,
            bets |-> IF shapeOk THEN pushed ELSE bets]
      ELSE [success |-> TRUE, error |-> "",
            bet |-> createBet(id, type, numbers, amount), bets |-> pushed]

\* placeBet: the result it returns and the ledger it leaves.
placeBet(bal, bets, id, type, numbers, amount) ==
  LET v == placeBetValidation(bal, bets, type, numbers, amount)
  IN  IF ~v.valid
      THEN [success |-> FALSE, error |-> v.error, bet |-> NoBet, bets |-> bets]
      ELSE [success |-> TRUE, error |-> "",
            bet |-> createBet(id, type, numbers, amount),
            bets |-> Append(bets, createBet(id, type, numbers, amount))]

\* Variant: the stakes already on the table are not counted.
canAffordBet_ignoresLedger(bal, bets, amount) == bal >= amount

canAffordBet(bal, bets, amount) == (bal - sumAmounts(bets)) >= amount

\* generateId when its draws differ from every identity still referred to:
\* identities are only ever compared for equality, so the drawn one is
\* represented by the least identity that no bet the state still refers to
\* carries. The draws themselves (Date.now() joined with Math.random(), no
\* look at the identities in use) are explored in SpecIds.
generateId(used) == CHOOSE n \in 1..(Cardinality(used) + 1) : n \notin used

idsOf(bets) == {bets[i].id : i \in 1..Len(bets)}

\* for (const bet of toPlace) { result = placeBet(...); if (result.success) placedBets.push(result.bet) }
RECURSIVE placeEach(_, _, _, _, _)
placeEach(bal, bets, used, toPlace, placed) ==
  IF toPlace = <<>>
  THEN [bets |-> bets, placed |-> placed]
  ELSE LET b == toPlace[1]
           id == generateId(used)
           r == placeBet(bal, bets, id, b.type, b.numbers, b.amount)
       IN  IF r.success
           THEN placeEach(bal, r.bets, used \cup {id}, Tail(toPlace), Append(placed, r.bet))
           ELSE placeEach(bal, bets, used, Tail(toPlace), placed)

\* doubleAllBets: the result it returns and the ledger it leaves.
doubleAllBets(bal, bets, used) ==
  IF Len(bets) = 0
  THEN [success |-> FALSE, error |-> "No bets to double", placed |-> <<>>, bets |-> bets]
  ELSE IF ~canAffordBet(bal, bets, sumAmounts(bets))
  THEN [success |-> FALSE, error |-> "Insufficient balance to double bets",
        placed |-> <<>>, bets |-> bets]
  ELSE LET r == placeEach(bal, bets, used, bets, <<>>)
       IN  [success |-> TRUE, error |-> "", placed |-> r.placed, bets |-> r.bets]

\* Variant: the recorded bets are placed without clearing the ledger first.
repeatLastBets_noClear(bal, bets, hist, used) ==
  IF Len(hist) = 0
  THEN [success |-> FALSE, error |-> "No previous bets to repeat",
        placed |-> <<>>, bets |-> bets, cleared |-> FALSE]
  ELSE IF Len(hist[1].bets) = 0
  THEN [success |-> FALSE, error |-> "No bets in last spin",
        placed |-> <<>>, bets |-> bets, cleared |-> FALSE]
  ELSE IF ~canAffordBet(bal, bets, sumAmounts(hist[1].bets))
  THEN [success |-> FALSE, error |-> "Insufficient balance to repeat bets",
        placed |-> <<>>, bets |-> bets, cleared |-> FALSE]
  ELSE LET r == placeEach(bal, bets, used \cup idsOf(bets), hist[1].bets, <<>>)
       IN  [success |-> TRUE, error |-> "", placed |-> r.placed, bets |-> r.bets,
            cleared |-> FALSE]

\* Variant: the ledger is cleared before the history is looked at.
repeatLastBets_clearsFirst(bal, bets, hist, used) ==
  IF Len(hist) = 0
  THEN [success |-> FALSE, error |-> "No previous bets to repeat",
        placed |-> <<>>, bets |-> <<>>, cleared |-> TRUE]
  ELSE IF Len(hist[1].bets) = 0
  THEN [success |-> FALSE, error |-> "No bets in last spin",
        placed |-> <<>>, bets |-> <<>>, cleared |-> TRUE]
  ELSE IF ~canAffordBet(bal, bets, sumAmounts(hist[1].bets))
  THEN [success |-> FALSE, error |-> "Insufficient balance to repeat bets",
        placed |-> <<>>, bets |-> bets, cleared |-> FALSE]
  ELSE LET r == placeEach(bal, <<>>, used, hist[1].bets, <<>>)
       IN  [success |-> TRUE, error |-> "", placed |-> r.placed, bets |-> r.bets,
            cleared |-> TRUE]

\* repeatLastBets: the result it returns, the ledger it leaves, and whether it
\* got as far as clearAllBets().
repeatLastBets(bal, bets, hist, used) ==
  IF Len(hist) = 0
  THEN [success |-> FALSE, error |-> "No previous bets to repeat",
        placed |-> <<>>, bets |-> bets, cleared |-> FALSE]
  ELSE IF Len(hist[1].bets) = 0
  THEN [success |-> FALSE, error |-> "No bets in last spin",
        placed |-> <<>>, bets |-> bets, cleared |-> FALSE]
  ELSE IF ~canAffordBet(bal, bets, sumAmounts(hist[1].bets))
  THEN [success |-> FALSE, error |-> "Insufficient balance to repeat bets",
        placed |-> <<>>, bets |-> bets, cleared |-> FALSE]
  ELSE LET r == placeEach(bal, <<>>, used, hist[1].bets, <<>>)
       IN  [success |-> TRUE, error |-> "", placed |-> r.placed, bets |-> r.bets,
            cleared |-> TRUE]

\* Variant: the hole left by the removed bet is filled with the newest bet.
removeBet_fillsHole(bets, betId) ==
  LET hits == {i \in 1..Len(bets) : bets[i].id = betId}
      betIndex == IF hits = {} THEN 0 ELSE CHOOSE i \in hits : \A j \in hits : i <= j
  IN  IF betIndex = 0
      THEN [success |-> FALSE, error |-> "Bet not found", removed |-> <<>>, bets |-> bets]
      ELSE [success |-> TRUE, error |-> "", removed |-> <<bets[betIndex]>>,
            bets |-> [i \in 1..(Len(bets) - 1) |->
                        IF i = betIndex THEN bets[Len(bets)] ELSE bets[i]]]

\* gameState.removeBet: findIndex of the first bet with that id, splice it out
removeBet(bets, betId) ==
  LET hits == {i \in 1..Len(bets) : bets[i].id = betId}
      betIndex == IF hits = {} THEN 0 ELSE CHOOSE i \in hits : \A j \in hits : i <= j
  IN  IF betIndex = 0
      THEN [success |-> FALSE, error |-> "Bet not found", removed |-> <<>>, bets |-> bets]
      ELSE [success |-> TRUE, error |-> "", removed |-> <<bets[betIndex]>>,
            bets |-> SubSeq(bets, 1, betIndex - 1) \o SubSeq(bets, betIndex + 1, Len(bets))]

\* Variant: the oldest bet is removed (shift) instead of the newest.
removeLastBet_shift(bets) ==
  IF Len(bets) > 0
  THEN [success |-> TRUE, error |-> "", removed |-> <<bets[1]>>, bets |-> Tail(bets)]
  ELSE [success |-> FALSE, error |-> "No bets to remove", removed |-> <<>>, bets |-> bets]

\* gameState.removeLastBet: pop
removeLastBet(bets) ==
  IF Len(bets) > 0
  THEN [success |-> TRUE, error |-> "", removed |-> <<bets[Len(bets)]>>,
        bets |-> SubSeq(bets, 1, Len(bets) - 1)]
  ELSE [success |-> FALSE, error |-> "No bets to remove", removed |-> <<>>, bets |-> bets]

-----------------------------------------------------------------------------
(* Payout engine (payout-calculator.js)                                    *)

\* Variant: a winning bet is paid its winnings without its stake.
calculateBetPayout_stakeKept(bet, spinNumber) ==
  LET isWinner == includes(bet.numbers, spinNumber)
      payout == bet.amount * betTypes[bet.type].payout
  IN  [isWinner |-> isWinner, payout |-> IF isWinner THEN payout ELSE 0,
       totalReturn |-> IF isWinner THEN payout ELSE 0, originalBet |-> bet.amount]

\* Variant: the labels 0 and '00' are compared as equal.
calculateBetPayout_zerosAlike(bet, spinNumber) ==
  LET w == IF spinNumber = DoubleZero THEN 0 ELSE spinNumber
      isWinner == \E i \in 1..Len(bet.numbers) :
                    (IF bet.numbers[i] = DoubleZero THEN 0 ELSE bet.numbers[i]) = w
      payout == bet.amount * betTypes[bet.type].payout
  IN  IF ~isWinner
      THEN [isWinner |-> FALSE, payout |-> 0, totalReturn |-> 0,
            originalBet |-> bet.amount]
      ELSE [isWinner |-> TRUE, payout |-> payout,
            totalReturn |-> bet.amount + payout, originalBet |-> bet.amount]

calculateBetPayout(bet, spinNumber) ==
  LET isWinner == includes(bet.numbers, spinNumber)
      payoutMultiplier ==
        IF bet.type \in DOMAIN betTypes THEN betTypes[bet.type].payout ELSE 0
      payout == bet.amount * payoutMultiplier
  IN  IF ~isWinner
      THEN [isWinner |-> FALSE, payout |-> 0, totalReturn |-> 0,
            originalBet |-> bet.amount]
      ELSE [isWinner |-> TRUE, payout |-> payout,
            totalReturn |-> bet.amount + payout, originalBet |-> bet.amount]

RECURSIVE sumReturns(_, _)
sumReturns(bets, spinNumber) ==
  IF bets = <<>> THEN 0
  ELSE calculateBetPayout(bets[1], spinNumber).totalReturn
         + sumReturns(Tail(bets), spinNumber)

\* { ...bet, ...betResult }: the bet with its resolution
resolved(bet, betResult) ==
  [id |-> bet.id, type |-> bet.type, numbers |-> bet.numbers, amount |-> bet.amount,
   isWinner |-> betResult.isWinner, payout |-> betResult.payout,
   totalReturn |-> betResult.totalReturn, originalBet |-> betResult.originalBet]

\* Variant: the stakes of the winning bets are left out of totalBet.
calculateAllPayouts_losersStaked(bets, spinNumber) ==
  LET losers == SelectSeq(bets, LAMBDA b : ~calculateBetPayout(b, spinNumber).isWinner)
      winners == SelectSeq(bets, LAMBDA b : calculateBetPayout(b, spinNumber).isWinner)
      totalWin == sumReturns(bets, spinNumber)
  IN  [spinNumber |-> spinNumber,
       totalBet |-> sumAmounts(losers),
       totalWin |-> totalWin,
       netProfit |-> totalWin - sumAmounts(losers),
       winningBets |-> [i \in 1..Len(winners) |->
                          resolved(winners[i], calculateBetPayout(winners[i], spinNumber))],
       losingBets |-> [i \in 1..Len(losers) |->
                         resolved(losers[i], calculateBetPayout(losers[i], spinNumber))],
       betCount |-> Len(bets)]

calculateAllPayouts(bets, spinNumber) ==
  LET totalBet == sumAmounts(bets)
      totalWin == sumReturns(bets, spinNumber)
      winners == SelectSeq(bets, LAMBDA b : calculateBetPayout(b, spinNumber).isWinner)
      losers == SelectSeq(bets, LAMBDA b : ~calculateBetPayout(b, spinNumber).isWinner)
  IN  [spinNumber |-> spinNumber,
       totalBet |-> totalBet,
       totalWin |-> totalWin,
       netProfit |-> totalWin - totalBet,
       winningBets |-> [i \in 1..Len(winners) |->
                          resolved(winners[i], calculateBetPayout(winners[i], spinNumber))],
       losingBets |-> [i \in 1..Len(losers) |->
                         resolved(losers[i], calculateBetPayout(losers[i], spinNumber))],
       betCount |-> Len(bets)]

\* A rational number num/den, den > 0, and the arithmetic calculateHouseEdge
\* uses, exact.
Rat(num, den) == [num |-> num, den |-> den]

ratSub(x, y) == Rat(x.num * y.den - y.num * x.den, x.den * y.den)

ratAdd(x, y) == Rat(x.num * y.den + y.num * x.den, x.den * y.den)

ratMul(x, y) == Rat(x.num * y.num, x.den * y.den)

\* x / y for y > 0
ratDiv(x, y) == Rat(x.num * y.den, x.den * y.num)

\* Variant: a wheel of 37 slots (a single zero).
calculateHouseEdge_singleZero(betType) ==
  IF betType \notin DOMAIN betTypes THEN Rat(0, 1)
  ELSE LET numbersCovered == betTypes[betType].numberCount
           payout == betTypes[betType].payout
           trueOdds == Rat(37 - numbersCovered, numbersCovered)
       IN  ratMul(ratDiv(ratSub(trueOdds, Rat(payout, 1)), ratAdd(trueOdds, Rat(1, 1))),
                  Rat(100, 1))

calculateHouseEdge(betType) ==
  LET totalNumbers == 38
  IN  IF betType \notin DOMAIN betTypes THEN Rat(0, 1)
      ELSE LET numbersCovered == betTypes[betType].numberCount
               payout == betTypes[betType].payout
               trueOdds == Rat(totalNumbers - numbersCovered, numbersCovered)
               houseEdge ==
                 ratMul(ratDiv(ratSub(trueOdds, Rat(payout, 1)),
                               ratAdd(trueOdds, Rat(1, 1))),
                        Rat(100, 1))
           IN  houseEdge

\* What spin() reads of the payout result after the credit: the three totals.
totals(payoutResult) ==
  [totalBet |-> payoutResult.totalBet, totalWin |-> payoutResult.totalWin,
   netProfit |-> payoutResult.netProfit]

NoPayout == totals(calculateAllPayouts(<<>>, null))

-----------------------------------------------------------------------------
(* Game state (game-state.js)                                              *)

\* Variant: the amount is stored as given, without the floor at zero.
updateBalance_noFloor(amount) == amount

\* updateBalance: this.state.balance = Math.max(0, amount)
updateBalance(amount) == Max(0, amount)

addToBalance(bal, amount) == updateBalance(bal + amount)

subtractFromBalance(bal, amount) == updateBalance(bal - amount)

balanceChange(old, new) ==
  [name |-> "balanceChange", oldBalance |-> old, newBalance |-> new, change |-> new - old]

Event(name) == [name |-> name]

\* Variant: the entry is pushed at the end instead of unshifted at the front.
addToHistory_push(hist, entry) ==
  LET h == hist \o <<entry>>
  IN  IF Len(h) > maxEntries THEN SubSeq(h, 1, maxEntries) ELSE h

\* addToHistory: unshift, then keep the first maxEntries entries
addToHistory(hist, entry) ==
  LET h == <<entry>> \o hist
  IN  IF Len(h) > maxEntries THEN SubSeq(h, 1, maxEntries) ELSE h

-----------------------------------------------------------------------------
(* Persistence (utils/storage.js). localStorage is modelled by whether it   *)
(* can be written, the JSON text held under each key and the number of      *)
(* console.warn calls made by save. A JSON text is modelled by its syntax   *)
(* tree: JSON.stringify builds it, JSON.parse reads it back.                *)

StorageKeys == {"roulette-balance", "roulette-history", "roulette-settings"}

\* localStorage.getItem of a key that was never written
NoItem == [json |-> "absent"]

defaultSettings == [soundEnabled |-> TRUE, animationSpeed |-> "normal"]

\* console.warn calls are counted up to MaxWarnings.
MaxWarnings == 2

stringifyNumber(n) == [json |-> "number", value |-> n]

stringifyString(s) == [json |-> "string", value |-> s]

stringifyBoolean(b) == [json |-> "boolean", value |-> b]

\* Variant: the label '00' is written as the number 0.
stringifyLabel_numeric(label) ==
  IF label = NaN \/ label = null THEN [json |-> "null"]
  ELSE IF label = DoubleZero THEN stringifyNumber(0)
  ELSE stringifyNumber(label)

\* A wheel label: the string '00' or a number; NaN and null are written null.
stringifyLabel(label) ==
  IF label = NaN \/ label = null THEN [json |-> "null"]
  ELSE IF label = DoubleZero THEN stringifyString("00")
  ELSE stringifyNumber(label)

parseLabel(text) ==
  IF text.json = "null" THEN null
  ELSE IF text.json = "string" THEN DoubleZero
  ELSE text.value

stringifyBet(bet) ==
  [json |-> "object",
   value |-> [id |-> stringifyNumber(bet.id),
              type |-> stringifyString(bet.type),
              numbers |-> [json |-> "array",
                           value |-> [i \in 1..Len(bet.numbers) |->
                                        stringifyLabel(bet.numbers[i])]],
              amount |-> stringifyNumber(bet.amount)]]

parseBet(text) ==
  [id |-> text.value.id.value,
   type |-> text.value.type.value,
   numbers |-> [i \in 1..Len(text.value.numbers.value) |->
                  parseLabel(text.value.numbers.value[i])],
   amount |-> text.value.amount.value]

stringifyEntry(entry) ==
  [json |-> "object",
   value |-> [spinNumber |-> stringifyLabel(entry.spinNumber),
              bets |-> [json |-> "array",
                        value |-> [i \in 1..Len(entry.bets) |->
                                     stringifyBet(entry.bets[i])]],
              totalBet |-> stringifyNumber(entry.totalBet),
              totalWin |-> stringifyNumber(entry.totalWin),
              netProfit |-> stringifyNumber(entry.netProfit)]]

parseEntry(text) ==
  [spinNumber |-> parseLabel(text.value.spinNumber),
   bets |-> [i \in 1..Len(text.value.bets.value) |->
               parseBet(text.value.bets.value[i])],
   totalBet |-> text.value.totalBet.value,
   totalWin |-> text.value.totalWin.value,
   netProfit |-> text.value.netProfit.value]

stringifyHistory(hist) ==
  [json |-> "array", value |-> [i \in 1..Len(hist) |-> stringifyEntry(hist[i])]]

parseHistory(text) == [i \in 1..Len(text.value) |-> parseEntry(text.value[i])]

stringifySettings(s) ==
  [json |-> "object",
   value |-> [soundEnabled |-> stringifyBoolean(s.soundEnabled),
              animationSpeed |-> stringifyString(s.animationSpeed)]]

parseSettings(text) ==
  [soundEnabled |-> text.value.soundEnabled.value,
   animationSpeed |-> text.value.animationSpeed.value]

\* isStorageAvailable: the test write succeeds or throws
isStorageAvailable(st) == st.available

\* save(key, value), `text` being JSON.stringify(value): warns and gives up
\* when storage is not available, else sets the item
save(st, key, text) ==
  IF ~isStorageAvailable(st)
  THEN [st EXCEPT !.warnings = IF @ < MaxWarnings THEN @ + 1 ELSE @]
  ELSE [st EXCEPT !.items[key] = text]

\* An item whose text JSON.parse rejects with a SyntaxError.
CorruptItem == [json |-> "corrupt"]

\* load(key, defaultValue) up to the parsed value: the item parsed, if any.
\* NoItem stands for the returns of defaultValue: storage not available,
\* getItem returning null, and the catch around JSON.parse.
load(st, key) ==
  IF ~isStorageAvailable(st) THEN NoItem
  ELSE IF st.items[key] = NoItem THEN NoItem
  ELSE IF st.items[key] = CorruptItem THEN NoItem
  ELSE st.items[key]

saveBalance(st, bal) == save(st, "roulette-balance", stringifyNumber(bal))

\* Variant: a balance that cannot be loaded counts as an empty purse.
loadBalance_zeroDefault(st) ==
  LET item == load(st, "roulette-balance")
  IN  IF item.json = "absent" THEN 0 ELSE item.value

loadBalance(st) ==
  LET item == load(st, "roulette-balance")
  IN  IF item.json = "absent" THEN defaultBalance ELSE item.value

saveHistory(st, hist) == save(st, "roulette-history", stringifyHistory(hist))

loadHistory(st) ==
  LET item == load(st, "roulette-history")
  IN  IF item.json = "absent" THEN <<>> ELSE parseHistory(item)

saveSettings(st, s) == save(st, "roulette-settings", stringifySettings(s))

loadSettings(st) ==
  LET item == load(st, "roulette-settings")
  IN  IF item.json = "absent" THEN defaultSettings ELSE parseSettings(item)

\* localStorage of a browser that never ran the game
EmptyStorage ==
  [available |-> TRUE, items |-> [k \in StorageKeys |-> NoItem], warnings |-> 0]

\* What is kept of the last command: its name and arguments, the result it
\* returned, the balance, ledger, history and isSpinning it started from, for
\* a round, whether another command ran while it was resolving and the amounts
\* its debit and its credit moved the balance by, and, for a removal, the
\* accepted placement that came just before it, if any.
Op(op, type, numbers, amount, success, error, bets) ==
  [op |-> op, type |-> type, numbers |-> numbers, amount |-> amount,
   success |-> success, error |-> error, bets |-> bets,
   before |-> [balance |-> balance, bets |-> currentBets, history |-> history,
               isSpinning |-> isSpinning],
   interleaved |-> FALSE,
   previous |-> <<>>,
   debited |-> 0, credited |-> 0]

\* The locals of spin(): its position, the snapshot `bets`, `result` and the
\* totals of `payoutResult`; and history fields the code does not keep: the
\* balance when the spin was accepted, whether another command ran since, and
\* the amounts the balance went down at the debit and up at the credit.
IdleSpin ==
  [pc |-> "idle", bets |-> <<>>, result |-> null, payout |-> NoPayout,
   accepted |-> 0, disturbed |-> FALSE, debited |-> 0, credited |-> 0]

historyEntry(bets, result, payoutResult) ==
  [spinNumber |-> result, bets |-> bets, totalBet |-> payoutResult.totalBet,
   totalWin |-> payoutResult.totalWin, netProfit |-> payoutResult.netProfit]

-----------------------------------------------------------------------------
(* Bounds and inputs of the exploration                                    *)

\* Placements are explored on ledgers of fewer than MaxPlaced bets and, up to
\* MaxBets bets, on ledgers staked within one maximum bet of the table maximum,
\* the only ones on which the table-maximum check can fail.
MaxPlaced == 1
MaxBets == 11

\* removeBet and removeLastBet are explored on ledgers of at most MaxShortLen
\* bets and, on longer ones, right after an accepted placement (removeBet for
\* the bet just placed); doubleAllBets on those and, up to MaxDoubleLen bets, on ledgers whose
\* bets average half the maximum bet or more, the only ones whose doubling can
\* reach the table maximum.
MaxShortLen == 2
MaxDoubleLen == 8

\* Rounds started in one run.
MaxRounds == 1

\* The bets a command may propose, <<type, numbers, amount>>: accepted shapes ...
ValidInputs ==
  { <<"straight", <<17>>, 999>>,
    <<"straight", <<17>>, 10>>,
    <<"split", <<17, 18>>, 20>> }

\* ... and shapes and amounts that fail one or several checks (38 is on no
\* wheel).
InvalidInputs ==
  { <<"bogus", <<>>, 0>>,
    <<"straight", <<>>, 10>>,
    <<"straight", <<38, 38>>, 0>>,
    <<"straight", <<17, 18>>, 10>>,
    <<"split", <<17, 17>>, 10>>,
    <<"split", <<18, 19>>, 2000>>,
    <<"corner", <<3, 4, 6, 7>>, 10>>,
    <<"straight", <<17>>, 0>>,
    <<"straight", <<17>>, NaN>>,
    <<"straight", <<17>>, 2000>> }

PlaceInputs == ValidInputs \cup InvalidInputs

\* Outcomes of generateSpinResult that are explored: a green, and a number that
\* the straight and split bets above cover.
Outcomes == {DoubleZero, 17}

-----------------------------------------------------------------------------
(* The event system of GameState and the collaborators' state              *)

\* The events the constructor creates a listener list for.
EventNames ==
  {"balanceChange", "betPlaced", "betRemoved", "betsCleared",
   "spinStart", "spinEnd", "historyUpdate", "settingsChange"}

\* this.listeners as the constructor leaves it
NoListeners == [e \in EventNames |-> <<>>]

\* on: push the callback, when the event has a listener list
on(ls, event, callback) ==
  IF event \in DOMAIN ls THEN [ls EXCEPT ![event] = Append(@, callback)] ELSE ls

\* off: filter every registration of the callback out
off(ls, event, callback) ==
  IF event \in DOMAIN ls
  THEN [ls EXCEPT ![event] = SelectSeq(@, LAMBDA cb : cb # callback)]
  ELSE ls

\* One invocation of a callback with the data of a notification.
invocation(callback, data) == [callback |-> callback, data |-> data]

\* Variant: forEach walks the callbacks from the last registered to the first.
RECURSIVE forEach_reversed(_, _)
forEach_reversed(callbacks, data) ==
  IF callbacks = <<>> THEN <<>>
  ELSE forEach_reversed(Tail(callbacks), data) \o <<invocation(Head(callbacks), data)>>

\* Array.prototype.forEach(callback => callback(data)): the invocations made
RECURSIVE forEach(_, _)
forEach(callbacks, data) ==
  IF callbacks = <<>> THEN <<>>
  ELSE <<invocation(Head(callbacks), data)>> \o forEach(Tail(callbacks), data)

\* emit: the invocations made for one notification
emit(ls, data) ==
  IF data.name \in DOMAIN ls THEN forEach(ls[data.name], data) ELSE <<>>

\* RouletteConfig.chipDenominations as the configuration file defines it
configuredChipDenominations == <<1, 5, 10, 25, 100, 500>>

\* No component constructed: nothing selected anywhere.
NoComponents ==
  [chipSelector |-> [selectedChip |-> null, disabled |-> {}],
   table |-> [selectedChip |-> null]]

\* The core on its own: no listener registered, no component constructed.
CoreAlone ==
  /\ listeners = NoListeners
  /\ calls = <<>>
  /\ chipDenominations = configuredChipDenominations
  /\ components = NoComponents

-----------------------------------------------------------------------------
(* Initial state: GameState constructor with nothing persisted             *)

\* The state the GameState constructor builds from what storage holds.
constructed(st) ==
  [balance |-> loadBalance(st), currentBets |-> <<>>, history |-> loadHistory(st),
   lastResult |-> null, isSpinning |-> FALSE, settings |-> loadSettings(st)]

Init ==
  /\ balance = constructed(EmptyStorage).balance
  /\ currentBets = constructed(EmptyStorage).currentBets
  /\ history = constructed(EmptyStorage).history
  /\ lastResult = constructed(EmptyStorage).lastResult
  /\ isSpinning = constructed(EmptyStorage).isSpinning
  /\ settings = constructed(EmptyStorage).settings
  /\ stored = EmptyStorage
  /\ spin = IdleSpin
  /\ rounds = 0
  /\ lastOp = Op("init", "", <<>>, 0, TRUE, "", <<>>)
  /\ events = <<>>
  /\ CoreAlone

\* The identities carried by bets the state still refers to.
RECURSIVE historyIds(_)
historyIds(hist) ==
  IF hist = <<>> THEN {} ELSE idsOf(hist[1].bets) \cup historyIds(Tail(hist))

usedIds == idsOf(currentBets) \cup idsOf(spin.bets) \cup historyIds(history)

-----------------------------------------------------------------------------
(* Bet commands. The table's click listener and the controls disabled on   *)
(* spinStart keep them from being issued while a round is resolving.       *)

\* The last command was an accepted placeBet.
JustPlaced == lastOp.op = "placeBet" /\ lastOp.success

\* The ledger that placement started from and the bet it returned.
PreviousPlacement ==
  IF JustPlaced THEN <<[bets |-> lastOp.before.bets, bet |-> lastOp.bets[1]]>> ELSE <<>>

NearTableMax == sumAmounts(currentBets) + maxBet >= tableMax

HighStakes == 2 * sumAmounts(currentBets) >= maxBet * Len(currentBets)

\* Variant: the stake is taken from the balance when the bet is placed.
PlaceBet_debits(type, numbers, amount) ==
  /\ ~isSpinning
  /\ LET r == placeBet(balance, currentBets, generateId(usedIds), type, numbers, amount)
     IN  /\ currentBets' = r.bets
         /\ balance' = IF r.success THEN subtractFromBalance(balance, amount) ELSE balance
         /\ lastOp' = Op("placeBet", type, numbers, amount, r.success, r.error,
                         IF r.success THEN <<r.bet>> ELSE <<>>)
         /\ events' = IF r.success THEN <<Event("betPlaced")>> ELSE <<>>
  /\ UNCHANGED <<ui, history, lastResult, settings, isSpinning, stored, spin, rounds>>

PlaceBet(type, numbers, amount) ==
  /\ ~isSpinning
  /\ LET r == placeBet(balance, currentBets, generateId(usedIds), type, numbers, amount)
     IN  /\ currentBets' = r.bets
         /\ lastOp' = Op("placeBet", type, numbers, amount, r.success, r.error,
                         IF r.success THEN <<r.bet>> ELSE <<>>)
         /\ events' = IF r.success THEN <<Event("betPlaced")>> ELSE <<>>
  /\ UNCHANGED <<ui, balance, history, lastResult, settings, isSpinning, stored, spin, rounds>>

\* Variant: the click listener without its isSpinning check.
IgnoredClick_places ==
  /\ isSpinning
  /\ \E in \in ValidInputs :
       LET r == placeBet(balance, currentBets, generateId(usedIds), in[1], in[2], in[3])
       IN  /\ currentBets' = r.bets
           /\ lastOp' = Op("tableClick", in[1], in[2], in[3], r.success, r.error, <<>>)
           /\ events' = IF r.success THEN <<Event("betPlaced")>> ELSE <<>>
  /\ UNCHANGED <<ui, balance, history, lastResult, settings, isSpinning, stored, spin, rounds>>

\* The table's click listener while a round is resolving: it returns before
\* handleBetPlacement, whatever cell and chip were chosen.
IgnoredClick ==
  /\ isSpinning
  /\ \E in \in ValidInputs :
       lastOp' = Op("tableClick", in[1], in[2], in[3], FALSE, "", <<>>)
  /\ events' = <<>>
  /\ UNCHANGED <<ui, balance, currentBets, history, lastResult, settings, isSpinning,
                 stored, spin, rounds>>

Place ==
  /\ Len(currentBets) < MaxPlaced \/ (NearTableMax /\ Len(currentBets) < MaxBets)
  /\ \E in \in PlaceInputs : PlaceBet(in[1], in[2], in[3])

RemoveBet(betId) ==
  /\ ~isSpinning
  /\ LET r == removeBet(currentBets, betId)
     IN  /\ currentBets' = r.bets
         /\ lastOp' = [Op("removeBet", "", <<>>, betId, r.success, r.error, r.removed)
                         EXCEPT !.previous = PreviousPlacement]
         /\ events' = IF r.success THEN <<Event("betRemoved")>> ELSE <<>>
  /\ UNCHANGED <<ui, balance, history, lastResult, settings, isSpinning, stored, spin, rounds>>

\* The identities removeBet is tried with: on a short ledger each one in it and
\* one that is not; on a longer one, that of the bet just placed.
RemovableIds ==
  IF Len(currentBets) <= MaxShortLen
  THEN idsOf(currentBets) \cup {generateId(usedIds)}
  ELSE IF JustPlaced THEN {lastOp.bets[1].id} ELSE {}

Remove == \E betId \in RemovableIds : RemoveBet(betId)

UndoBet ==
  /\ ~isSpinning
  /\ Len(currentBets) <= MaxShortLen \/ JustPlaced
  /\ LET r == removeLastBet(currentBets)
     IN  /\ currentBets' = r.bets
         /\ lastOp' = [Op("removeLastBet", "", <<>>, 0, r.success, r.error, r.removed)
                         EXCEPT !.previous = PreviousPlacement]
         /\ events' = IF r.success THEN <<Event("betRemoved")>> ELSE <<>>
  /\ UNCHANGED <<ui, balance, history, lastResult, settings, isSpinning, stored, spin, rounds>>

\* Variant: the oldest bet stays on the table.
ClearBets_keepsOldest ==
  /\ ~isSpinning
  /\ currentBets' = IF currentBets = <<>> THEN <<>> ELSE <<currentBets[1]>>
  /\ lastOp' = Op("clearAllBets", "", <<>>, 0, TRUE, "",
                  IF currentBets = <<>> THEN <<>> ELSE Tail(currentBets))
  /\ events' = <<Event("betsCleared")>>
  /\ UNCHANGED <<ui, balance, history, lastResult, settings, isSpinning, stored, spin, rounds>>

\* clearAllBets -> gameState.clearBets
ClearBets ==
  /\ ~isSpinning
  /\ currentBets' = <<>>
  /\ lastOp' = Op("clearAllBets", "", <<>>, 0, TRUE, "", currentBets)
  /\ events' = <<Event("betsCleared")>>
  /\ UNCHANGED <<ui, balance, history, lastResult, settings, isSpinning, stored, spin, rounds>>

placedEvents(placed) == [i \in 1..Len(placed) |-> Event("betPlaced")]

DoubleBets ==
  /\ ~isSpinning
  /\ Len(currentBets) <= MaxShortLen \/ (HighStakes /\ Len(currentBets) <= MaxDoubleLen)
  /\ LET r == doubleAllBets(balance, currentBets, usedIds)
     IN  /\ currentBets' = r.bets
         /\ lastOp' = Op("doubleAllBets", "", <<>>, 0, r.success, r.error, r.placed)
         /\ events' = placedEvents(r.placed)
  /\ UNCHANGED <<ui, balance, history, lastResult, settings, isSpinning, stored, spin, rounds>>

RepeatBets ==
  /\ ~isSpinning
  /\ LET r == repeatLastBets(balance, currentBets, history,
                             historyIds(history) \cup idsOf(spin.bets))
     IN  /\ currentBets' = r.bets
         /\ lastOp' = Op("repeatLastBets", "", <<>>, 0, r.success, r.error, r.placed)
         /\ events' = (IF r.cleared THEN <<Event("betsCleared")>> ELSE <<>>)
                        \o placedEvents(r.placed)
  /\ UNCHANGED <<ui, balance, history, lastResult, settings, isSpinning, stored, spin, rounds>>

-----------------------------------------------------------------------------
(* Settings-panel commands, which stay enabled while a round is resolving  *)

ResetBalance ==
  /\ balance' = updateBalance(defaultBalance)
  /\ stored' = saveBalance(stored, updateBalance(defaultBalance))
  /\ lastOp' = Op("resetBalance", "", <<>>, 0, TRUE, "", <<>>)
  /\ events' = <<balanceChange(balance, updateBalance(defaultBalance))>>
  /\ spin' = [spin EXCEPT !.disturbed = isSpinning]
  /\ UNCHANGED <<ui, currentBets, history, lastResult, settings, isSpinning, rounds>>

ClearHistory ==
  /\ history' = <<>>
  /\ stored' = saveHistory(stored, <<>>)
  /\ lastOp' = Op("clearHistory", "", <<>>, 0, TRUE, "", <<>>)
  /\ events' = <<Event("historyUpdate")>>
  /\ spin' = [spin EXCEPT !.disturbed = isSpinning]
  /\ UNCHANGED <<ui, balance, currentBets, lastResult, settings, isSpinning, rounds>>

-----------------------------------------------------------------------------
(* RouletteGame.spin(): the synchronous part up to each await is one step  *)

\* Variant: spin() without its isSpinning check.
Spin_reentrant ==
  /\ rounds < MaxRounds \/ isSpinning
  /\ IF Len(currentBets) = 0
     THEN /\ lastOp' = Op("spin", "", <<>>, 0, FALSE, "Place at least one bet", <<>>)
          /\ events' = <<>>
          /\ UNCHANGED <<ui, balance, isSpinning, stored, spin, rounds>>
     ELSE LET totalBet == sumAmounts(currentBets)
              newBalance == subtractFromBalance(balance, totalBet)
          IN  /\ isSpinning' = TRUE
              /\ balance' = newBalance
              /\ stored' = saveBalance(stored, newBalance)
              /\ spin' = [IdleSpin EXCEPT !.pc = "playSpin", !.bets = currentBets,
                                           !.accepted = balance,
                                           !.debited = balance - newBalance]
              /\ rounds' = rounds + 1
              /\ lastOp' = Op("spin", "", <<>>, totalBet, TRUE, "", currentBets)
              /\ events' = <<Event("spinStart"), balanceChange(balance, newBalance)>>
  /\ UNCHANGED <<ui, currentBets, history, lastResult, settings>>

\* Variant: spin() without its empty-ledger check.
Spin_acceptsEmpty ==
  /\ rounds < MaxRounds \/ isSpinning
  /\ IF isSpinning
     THEN /\ lastOp' = Op("spin", "", <<>>, 0, FALSE, "", <<>>)
          /\ events' = <<>>
          /\ UNCHANGED <<ui, balance, isSpinning, stored, spin, rounds>>
     ELSE LET totalBet == sumAmounts(currentBets)
              newBalance == subtractFromBalance(balance, totalBet)
          IN  /\ isSpinning' = TRUE
              /\ balance' = newBalance
              /\ stored' = saveBalance(stored, newBalance)
              /\ spin' = [IdleSpin EXCEPT !.pc = "playSpin", !.bets = currentBets,
                                           !.accepted = balance,
                                           !.debited = balance - newBalance]
              /\ rounds' = rounds + 1
              /\ lastOp' = Op("spin", "", <<>>, totalBet, TRUE, "", currentBets)
              /\ events' = <<Event("spinStart"), balanceChange(balance, newBalance)>>
  /\ UNCHANGED <<ui, currentBets, history, lastResult, settings>>

\* spin(), up to `await audioManager.playSpin()`
Spin ==
  /\ rounds < MaxRounds \/ isSpinning
  /\ IF Len(currentBets) = 0
     THEN /\ lastOp' = Op("spin", "", <<>>, 0, FALSE, "Place at least one bet", <<>>)
          /\ events' = <<>>
          /\ UNCHANGED <<ui, balance, isSpinning, stored, spin, rounds>>
     ELSE IF isSpinning
     THEN /\ lastOp' = Op("spin", "", <<>>, 0, FALSE, "", <<>>)
          /\ events' = <<>>
          /\ UNCHANGED <<ui, balance, isSpinning, stored, spin, rounds>>
     ELSE LET totalBet == sumAmounts(currentBets)
              newBalance == subtractFromBalance(balance, totalBet)
          IN  /\ isSpinning' = TRUE
              /\ balance' = newBalance
              /\ stored' = saveBalance(stored, newBalance)
              /\ spin' = [IdleSpin EXCEPT !.pc = "playSpin", !.bets = currentBets,
                                           !.accepted = balance,
                                           !.debited = balance - newBalance]
              /\ rounds' = rounds + 1
              /\ lastOp' = Op("spin", "", <<>>, totalBet, TRUE, "", currentBets)
              /\ events' = <<Event("spinStart"), balanceChange(balance, newBalance)>>
  /\ UNCHANGED <<ui, currentBets, history, lastResult, settings>>

\* after playSpin: generateSpinResult(), then `await this.components.wheel.spin(result)`
SpinDraw ==
  /\ spin.pc = "playSpin"
  /\ \E result \in Outcomes :
       /\ includes(wheelOrder, result)
       /\ spin' = [spin EXCEPT !.pc = "wheel", !.result = result]
  /\ lastOp' = Op("spin:draw", "", <<>>, 0, TRUE, "", <<>>)
  /\ events' = <<>>
  /\ UNCHANGED <<ui, balance, currentBets, history, lastResult, settings, isSpinning, stored, rounds>>

\* after the wheel: calculateAllPayouts, credit, then `await playWin()/playLose()`
SpinSettle ==
  /\ spin.pc = "wheel"
  /\ LET payoutResult == calculateAllPayouts(spin.bets, spin.result)
         newBalance == IF payoutResult.totalWin > 0
                       THEN addToBalance(balance, payoutResult.totalWin)
                       ELSE balance
     IN  /\ balance' = newBalance
         /\ stored' = IF payoutResult.totalWin > 0
                      THEN saveBalance(stored, newBalance) ELSE stored
         /\ spin' = [spin EXCEPT !.pc = "playWinLose", !.payout = totals(payoutResult),
                                  !.credited = newBalance - balance]
         /\ events' = IF payoutResult.totalWin > 0
                      THEN <<balanceChange(balance, newBalance)>> ELSE <<>>
  /\ lastOp' = Op("spin:settle", "", <<>>, 0, TRUE, "", <<>>)
  /\ UNCHANGED <<ui, currentBets, history, lastResult, settings, isSpinning, rounds>>

\* Variant: the round ends without gameState.endSpin(result).
SpinFinish_noEndSpin ==
  /\ spin.pc = "playWinLose"
  /\ LET h == addToHistory(history, historyEntry(spin.bets, spin.result, spin.payout))
     IN  /\ history' = h
         /\ stored' = saveHistory(stored, h)
  /\ currentBets' = <<>>
  /\ spin' = IdleSpin
  /\ lastOp' = [Op("spin:end", "", <<>>, 0, TRUE, "", <<>>)
                  EXCEPT !.before.balance = spin.accepted,
                         !.interleaved = spin.disturbed,
                         !.debited = spin.debited, !.credited = spin.credited]
  /\ events' = <<Event("historyUpdate"), Event("betsCleared")>>
  /\ UNCHANGED <<ui, balance, lastResult, isSpinning, settings, rounds>>

\* Variant: the round ends without gameState.clearBets().
SpinFinish_keepsLedger ==
  /\ spin.pc = "playWinLose"
  /\ LET h == addToHistory(history, historyEntry(spin.bets, spin.result, spin.payout))
     IN  /\ history' = h
         /\ stored' = saveHistory(stored, h)
  /\ isSpinning' = FALSE
  /\ lastResult' = spin.result
  /\ spin' = IdleSpin
  /\ lastOp' = [Op("spin:end", "", <<>>, 0, TRUE, "", <<>>)
                  EXCEPT !.before.balance = spin.accepted,
                         !.interleaved = spin.disturbed,
                         !.debited = spin.debited, !.credited = spin.credited]
  /\ events' = <<Event("historyUpdate"), Event("spinEnd")>>
  /\ UNCHANGED <<ui, balance, currentBets, settings, rounds>>

\* after the win/lose sound: addToHistory, clearBets, endSpin
SpinFinish ==
  /\ spin.pc = "playWinLose"
  /\ LET h == addToHistory(history, historyEntry(spin.bets, spin.result, spin.payout))
     IN  /\ history' = h
         /\ stored' = saveHistory(stored, h)
  /\ currentBets' = <<>>
  /\ isSpinning' = FALSE
  /\ lastResult' = spin.result
  /\ spin' = IdleSpin
  /\ lastOp' = [Op("spin:end", "", <<>>, 0, TRUE, "", <<>>)
                  EXCEPT !.before.balance = spin.accepted,
                         !.interleaved = spin.disturbed,
                         !.debited = spin.debited, !.credited = spin.credited]
  /\ events' = <<Event("historyUpdate"), Event("betsCleared"), Event("spinEnd")>>
  /\ UNCHANGED <<ui, balance, settings, rounds>>

-----------------------------------------------------------------------------

Next ==
  \/ Place
  \/ IgnoredClick
  \/ Remove
  \/ UndoBet
  \/ ClearBets
  \/ DoubleBets
  \/ RepeatBets
  \/ ResetBalance
  \/ ClearHistory
  \/ Spin
  \/ SpinDraw
  \/ SpinSettle
  \/ SpinFinish

Spec == Init /\ [][Next]_vars

\* The awaits of spin() return: the sound promises resolve (or their rejection
\* is caught) and the wheel's animation ends after its duration, so each
\* continuation of a running spin() is eventually run.
SpecFair ==
  /\ Spec
  /\ WF_vars(SpinDraw)
  /\ WF_vars(SpinSettle)
  /\ WF_vars(SpinFinish)

-----------------------------------------------------------------------------
(* GameState's balance mutators called directly, with any amount            *)

\* Amounts a caller passes: one far below zero, one positive.
ApiAmounts == {-2000, 2000}

\* Largest balance a direct call is explored from, and up to.
MaxApiBalance == 2000

SetBalance(op, newBalance, amount) ==
  /\ balance <= MaxApiBalance
  /\ newBalance <= MaxApiBalance
  /\ balance' = newBalance
  /\ stored' = saveBalance(stored, newBalance)
  /\ lastOp' = Op(op, "", <<>>, amount, TRUE, "", <<>>)
  /\ events' = <<balanceChange(balance, newBalance)>>
  /\ spin' = [spin EXCEPT !.disturbed = isSpinning]
  /\ UNCHANGED <<ui, currentBets, history, lastResult, settings, isSpinning, rounds>>

UpdateBalance ==
  \E amount \in ApiAmounts :
     SetBalance("updateBalance", updateBalance(amount), amount)

AddToBalance ==
  \E amount \in ApiAmounts :
     SetBalance("addToBalance", addToBalance(balance, amount), amount)

SubtractFromBalance ==
  \E amount \in ApiAmounts :
     SetBalance("subtractFromBalance", subtractFromBalance(balance, amount), amount)

\* Placement on a short ledger only: the direct calls are explored around
\* small stakes.
PlaceFew ==
  /\ Len(currentBets) < MaxPlaced
  /\ \E in \in PlaceInputs : PlaceBet(in[1], in[2], in[3])

NextApi ==
  \/ PlaceFew
  \/ Remove
  \/ UndoBet
  \/ ClearBets
  \/ DoubleBets
  \/ RepeatBets
  \/ ResetBalance
  \/ ClearHistory
  \/ Spin
  \/ SpinDraw
  \/ SpinSettle
  \/ SpinFinish
  \/ UpdateBalance
  \/ AddToBalance
  \/ SubtractFromBalance

SpecApi == Init /\ [][NextApi]_vars

-----------------------------------------------------------------------------
(* Sessions: the game constructed over what earlier sessions persisted, or  *)
(* over a storage that cannot be written, with the settings toggle and the  *)
(* page reload                                                             *)

\* An earlier round that lost: the i-th bet of 10 on a number, the wheel on 0.
lostRound(i) ==
  LET bets == <<createBet(i, "straight", <<((i - 1) % 36) + 1>>, 10)>>
  IN  historyEntry(bets, 0, totals(calculateAllPayouts(bets, 0)))

\* An earlier round that won: 10 on 17, the wheel on 17.
wonRound ==
  LET bets == <<createBet(1, "straight", <<17>>, 10)>>
  IN  historyEntry(bets, 17, totals(calculateAllPayouts(bets, 17)))

\* The history after k lost rounds, newest first.
lostRounds(k) == [i \in 1..k |-> lostRound(k + 1 - i)]

\* What earlier sessions left in memory when they ended: one won round, or
\* enough lost rounds to fill the history or to leave one place in it.
PriorSessions ==
  { [balance |-> defaultBalance + wonRound.netProfit, history |-> <<wonRound>>] }
    \cup { [balance |-> defaultBalance - 10 * k, history |-> lostRounds(k)] :
             k \in {maxEntries - 1, maxEntries} }

\* localStorage when the page loads: never written, not writable, written
\* by an earlier session, or holding items that are not JSON.
SessionStorages ==
  { EmptyStorage, [EmptyStorage EXCEPT !.available = FALSE],
    [EmptyStorage EXCEPT !.items = [k \in StorageKeys |-> CorruptItem]] }
    \cup { saveHistory(saveBalance(EmptyStorage, p.balance), p.history) :
             p \in PriorSessions }

InitSession ==
  \E st \in SessionStorages :
    /\ stored = st
    /\ balance = constructed(st).balance
    /\ currentBets = constructed(st).currentBets
    /\ history = constructed(st).history
    /\ lastResult = constructed(st).lastResult
    /\ isSpinning = constructed(st).isSpinning
    /\ settings = constructed(st).settings
    /\ spin = IdleSpin
    /\ rounds = 0
    /\ lastOp = Op("init", "", <<>>, 0, TRUE, "", <<>>)
    /\ events = <<>>
    /\ CoreAlone

\* Bets placed in a session: a small one, and two that together stake more
\* than the default balance.
SessionInputs ==
  { <<"straight", <<17>>, 10>>,
    <<"straight", <<17>>, 350>>,
    <<"split", <<17, 18>>, 1000>> }

\* Length of the ledgers explored in a session; bets are placed until the
\* last round explored has started.
MaxSessionBets == 2

PlaceSession ==
  /\ Len(currentBets) < MaxSessionBets
  /\ rounds < MaxRounds
  /\ \E in \in SessionInputs : PlaceBet(in[1], in[2], in[3])

\* audioManager.setEnabled(enabled) -> gameState.setSetting('soundEnabled', enabled)
SetSound ==
  \E enabled \in BOOLEAN :
    LET s == [settings EXCEPT !.soundEnabled = enabled]
    IN  /\ settings' = s
        /\ stored' = saveSettings(stored, s)
        /\ lastOp' = Op("setSetting", "soundEnabled", <<>>, 0, TRUE, "", <<>>)
        /\ events' = <<Event("settingsChange")>>
        /\ spin' = [spin EXCEPT !.disturbed = isSpinning]
        /\ UNCHANGED <<ui, balance, currentBets, history, lastResult, isSpinning, rounds>>

\* The page is reloaded: the running spin() is gone with the page, the
\* console starts empty, and a new GameState is constructed from storage.
\* The command records the position, the snapshot and the outcome, if drawn,
\* of the spin it ended.
Reload ==
  LET st == [stored EXCEPT !.warnings = 0]
  IN  /\ stored' = st
      /\ balance' = constructed(st).balance
      /\ currentBets' = constructed(st).currentBets
      /\ history' = constructed(st).history
      /\ lastResult' = constructed(st).lastResult
      /\ isSpinning' = constructed(st).isSpinning
      /\ settings' = constructed(st).settings
      /\ spin' = IdleSpin
      /\ lastOp' = [Op("reload", spin.pc,
                         IF spin.result = null THEN <<>> ELSE <<spin.result>>,
                         0, TRUE, "", spin.bets)
                      EXCEPT !.interleaved = spin.disturbed]
      /\ events' = <<>>
      /\ UNCHANGED <<ui, rounds>>

NextSession ==
  \/ PlaceSession
  \/ ResetBalance
  \/ ClearHistory
  \/ SetSound
  \/ Spin
  \/ SpinDraw
  \/ SpinSettle
  \/ SpinFinish
  \/ Reload

SpecSession == InitSession /\ [][NextSession]_vars

-----------------------------------------------------------------------------
(* Identities as generateId draws them: `${Date.now()}-${Math.random()...}` *)
(* is a value of a finite space picked without looking at the identities in *)
(* use; two calls in the same millisecond differ by the random part only.   *)

\* Size of the space the identities are drawn from.
MaxDrawnIds == 2

DrawnIds == 1..MaxDrawnIds

\* placeBet with the identity generateId returned
PlaceBetAs(id, type, numbers, amount) ==
  /\ ~isSpinning
  /\ LET r == placeBet(balance, currentBets, id, type, numbers, amount)
     IN  /\ currentBets' = r.bets
         /\ lastOp' = Op("placeBet", type, numbers, amount, r.success, r.error,
                         IF r.success THEN <<r.bet>> ELSE <<>>)
         /\ events' = IF r.success THEN <<Event("betPlaced")>> ELSE <<>>
  /\ UNCHANGED <<ui, balance, history, lastResult, settings, isSpinning, stored, spin, rounds>>

PlaceDrawn ==
  /\ Len(currentBets) < MaxSessionBets
  /\ \E id \in DrawnIds, in \in ValidInputs : PlaceBetAs(id, in[1], in[2], in[3])

RemoveDrawn == \E betId \in DrawnIds : RemoveBet(betId)

NextIds ==
  \/ PlaceDrawn
  \/ RemoveDrawn
  \/ UndoBet
  \/ ClearBets

SpecIds == Init /\ [][NextIds]_vars

-----------------------------------------------------------------------------
(* The event system on its own: callbacks registered and removed by any     *)
(* caller, and the balance mutators notifying them                          *)

\* The callbacks a caller registers.
Callbacks == {"f", "g"}

\* Events a caller names: two with a listener list, one without.
NamedEvents == {"balanceChange", "spinEnd", "roundAborted"}

\* Registrations explored per event.
MaxListeners == 2

On ==
  \E event \in NamedEvents, callback \in Callbacks :
    /\ event \in EventNames => Len(listeners[event]) < MaxListeners
    /\ listeners' = on(listeners, event, callback)
    /\ lastOp' = Op("on", event, <<>>, 0, TRUE, "", <<>>)
    /\ events' = <<>>
    /\ calls' = <<>>
    /\ UNCHANGED <<balance, currentBets, history, lastResult, settings, isSpinning,
                   stored, spin, rounds, chipDenominations, components>>

Off ==
  \E event \in NamedEvents, callback \in Callbacks :
    /\ listeners' = off(listeners, event, callback)
    /\ lastOp' = Op("off", event, <<>>, 0, TRUE, "", <<>>)
    /\ events' = <<>>
    /\ calls' = <<>>
    /\ UNCHANGED <<balance, currentBets, history, lastResult, settings, isSpinning,
                   stored, spin, rounds, chipDenominations, components>>

\* updateBalance: store, save, emit to the registered callbacks
NotifyBalance(op, newBalance, amount) ==
  /\ balance <= MaxApiBalance
  /\ newBalance <= MaxApiBalance
  /\ balance' = newBalance
  /\ stored' = saveBalance(stored, newBalance)
  /\ lastOp' = Op(op, "", <<>>, amount, TRUE, "", <<>>)
  /\ events' = <<balanceChange(balance, newBalance)>>
  /\ calls' = emit(listeners, balanceChange(balance, newBalance))
  /\ UNCHANGED <<currentBets, history, lastResult, settings, isSpinning, spin, rounds,
                 listeners, chipDenominations, components>>

NotifiedUpdateBalance ==
  \E amount \in ApiAmounts :
     NotifyBalance("updateBalance", updateBalance(amount), amount)

NotifiedAddToBalance ==
  \E amount \in ApiAmounts :
     NotifyBalance("addToBalance", addToBalance(balance, amount), amount)

NotifiedSubtractFromBalance ==
  \E amount \in ApiAmounts :
     NotifyBalance("subtractFromBalance", subtractFromBalance(balance, amount), amount)

NotifiedResetBalance ==
  NotifyBalance("resetBalance", updateBalance(defaultBalance), 0)

NextEmitter ==
  \/ On
  \/ Off
  \/ NotifiedUpdateBalance
  \/ NotifiedAddToBalance
  \/ NotifiedSubtractFromBalance
  \/ NotifiedResetBalance

SpecEmitter == Init /\ [][NextEmitter]_vars

-----------------------------------------------------------------------------
(* The betting table and the chip selector over the core, as                *)
(* RouletteGame.init constructs and wires them                              *)

\* getAvailableBalance
getAvailableBalance(bal, bets) == Max(0, bal - sumAmounts(bets))

\* this.listeners after init: the table's constructor registers first, then
\* the chip selector's, the history's and the application's.
registeredListeners ==
  LET table == on(on(NoListeners, "betsCleared", "table.clearChips"),
                  "betRemoved", "table.refreshChips")
      chips == on(on(on(on(table,
                  "balanceChange", "chipSelector.updateChipAvailability"),
                  "betPlaced", "chipSelector.updateChipAvailability"),
                  "betRemoved", "chipSelector.updateChipAvailability"),
                  "betsCleared", "chipSelector.updateChipAvailability")
      hist  == on(on(chips, "historyUpdate", "history.render"),
                  "spinEnd", "history.render")
  IN  on(on(on(hist, "balanceChange", "app.updateUI"),
                  "spinStart", "app.disableControls"),
                  "spinEnd", "app.enableControls")

\* The chip elements render() created, by their data-value.
renderedChips ==
  {configuredChipDenominations[i] : i \in 1..Len(configuredChipDenominations)}

\* Array.prototype.reverse
reverse(seq) == [i \in 1..Len(seq) |-> seq[Len(seq) + 1 - i]]

\* Array.prototype.find(val => val <= available); undefined is null here
find(seq, available) ==
  LET hits == {i \in 1..Len(seq) : seq[i] <= available}
  IN  IF hits = {} THEN null
      ELSE seq[CHOOSE i \in hits : \A j \in hits : i <= j]

\* selectChip: only an enabled chip element is selected; onChipSelected hands
\* the value to the table once init has set it (wired).
selectChip(comps, value, wired) ==
  IF value \in renderedChips /\ value \notin comps.chipSelector.disabled
  THEN [comps EXCEPT !.chipSelector.selectedChip = value,
                     !.table.selectedChip = IF wired THEN value ELSE @]
  ELSE comps

\* updateChipAvailability() over all chips: st is the denominations array
\* and the components, available is what getAvailableBalance returns.
updateChipAvailability(st, available) ==
  LET comps == [st.components EXCEPT
                  !.chipSelector.disabled = {v \in renderedChips : v > available}]
      selected == comps.chipSelector.selectedChip
  IN  IF selected # null /\ selected > available
      THEN LET reversed == reverse(st.chipDenominations)
               affordableChip == find(reversed, available)
           IN  [chipDenominations |-> reversed,
                components |->
                  IF affordableChip # null
                  THEN selectChip(comps, affordableChip, TRUE)
                  ELSE [comps EXCEPT !.chipSelector.selectedChip = null]]
      ELSE [chipDenominations |-> st.chipDenominations, components |-> comps]

\* What the invocations of one command do to the collaborators: only the
\* chip selector's callback touches state kept here.
RECURSIVE invoke(_, _, _)
invoke(invocations, st, available) ==
  IF invocations = <<>> THEN st
  ELSE invoke(Tail(invocations),
              IF Head(invocations).callback = "chipSelector.updateChipAvailability"
              THEN updateChipAvailability(st, available)
              ELSE st,
              available)

\* new BettingTable, then new ChipSelector: each chip is rendered enabled or
\* disabled, and the first denomination is selected before init wires
\* onChipSelected.
constructedComponents(bal) ==
  selectChip([chipSelector |-> [selectedChip |-> null,
                                disabled |-> {v \in renderedChips : v > bal}],
              table |-> [selectedChip |-> null]],
             configuredChipDenominations[1], FALSE)

InitTable ==
  /\ balance = constructed(EmptyStorage).balance
  /\ currentBets = constructed(EmptyStorage).currentBets
  /\ history = constructed(EmptyStorage).history
  /\ lastResult = constructed(EmptyStorage).lastResult
  /\ isSpinning = constructed(EmptyStorage).isSpinning
  /\ settings = constructed(EmptyStorage).settings
  /\ stored = EmptyStorage
  /\ spin = IdleSpin
  /\ rounds = 0
  /\ lastOp = Op("init", "", <<>>, 0, TRUE, "", <<>>)
  /\ events = <<>>
  /\ listeners = registeredListeners
  /\ calls = <<>>
  /\ chipDenominations = configuredChipDenominations
  /\ components = constructedComponents(constructed(EmptyStorage).balance)

\* addNumberCell: the cell of a number, in the grid row that lists it
addNumberCell(number, rowIndex) ==
  [type |-> "straight", gridRow |-> rowIndex + 1, value |-> number]

\* addTwoToOneLabel(rowIndex): the label's grid row, and its data-column
addTwoToOneLabel(rowIndex) ==
  [type |-> "column", gridRow |-> rowIndex + 1, value |-> rowIndex + 1]

\* The cells clicked: the cell of 17 and the three '2 to 1' labels.
Cells == {addNumberCell(17, 1)} \cup {addTwoToOneLabel(i) : i \in 0..2}

\* RouletteConfig.betSets[`column${columnNum}`]
betSetsColumn(columnNum) ==
  CASE columnNum = 1 -> betSetsColumn1
    [] columnNum = 2 -> betSetsColumn2
    [] columnNum = 3 -> betSetsColumn3

\* handleBetPlacement: the bet type and the numbers of the clicked cell
handleBetPlacement(cell) ==
  IF cell.type = "straight"
  THEN [betType |-> "straight", numbers |-> <<cell.value>>]
  ELSE [betType |-> "column", numbers |-> betSetsColumn(cell.value)]

\* The chips clicked.
ChipClicks == {100, 500}

\* Length of the ledgers explored at the table.
MaxTableBets == 2

\* The chip container's click listener
ClickChip ==
  \E value \in ChipClicks :
    /\ value \notin components.chipSelector.disabled
    /\ components' = selectChip(components, value, TRUE)
    /\ lastOp' = Op("chipClick", "", <<>>, value, TRUE, "", <<>>)
    /\ events' = <<>>
    /\ calls' = <<>>
    /\ UNCHANGED <<balance, currentBets, history, lastResult, settings, isSpinning,
                   stored, spin, rounds, listeners, chipDenominations>>

\* The table's click listener, then handleBetPlacement with the table's chip
ClickCell ==
  \E cell \in Cells :
    /\ components.table.selectedChip # null
    /\ ~isSpinning
    /\ Len(currentBets) < MaxTableBets
    /\ LET h == handleBetPlacement(cell)
           r == placeBet(balance, currentBets, generateId(usedIds),
                         h.betType, h.numbers, components.table.selectedChip)
           emitted == IF r.success THEN <<Event("betPlaced")>> ELSE <<>>
           made == IF r.success THEN emit(listeners, Event("betPlaced")) ELSE <<>>
           st == invoke(made, [chipDenominations |-> chipDenominations,
                               components |-> components],
                        getAvailableBalance(balance, r.bets))
       IN  /\ currentBets' = r.bets
           /\ lastOp' = [cell |-> cell] @@
                        Op("cellClick", h.betType, h.numbers,
                           components.table.selectedChip, r.success, r.error,
                           IF r.success THEN <<r.bet>> ELSE <<>>)
           /\ events' = emitted
           /\ calls' = made
           /\ chipDenominations' = st.chipDenominations
           /\ components' = st.components
    /\ UNCHANGED <<balance, history, lastResult, settings, isSpinning, stored, spin,
                   rounds, listeners>>

\* The undo button at the table
TableUndo ==
  /\ ~isSpinning
  /\ LET r == removeLastBet(currentBets)
         emitted == IF r.success THEN <<Event("betRemoved")>> ELSE <<>>
         made == IF r.success THEN emit(listeners, Event("betRemoved")) ELSE <<>>
         st == invoke(made, [chipDenominations |-> chipDenominations,
                             components |-> components],
                      getAvailableBalance(balance, r.bets))
     IN  /\ currentBets' = r.bets
         /\ lastOp' = Op("removeLastBet", "", <<>>, 0, r.success, r.error, r.removed)
         /\ events' = emitted
         /\ calls' = made
         /\ chipDenominations' = st.chipDenominations
         /\ components' = st.components
  /\ UNCHANGED <<balance, history, lastResult, settings, isSpinning, stored, spin,
                 rounds, listeners>>

\* The clear button at the table
TableClear ==
  /\ ~isSpinning
  /\ LET made == emit(listeners, Event("betsCleared"))
         st == invoke(made, [chipDenominations |-> chipDenominations,
                             components |-> components],
                      getAvailableBalance(balance, <<>>))
     IN  /\ currentBets' = <<>>
         /\ lastOp' = Op("clearAllBets", "", <<>>, 0, TRUE, "", currentBets)
         /\ events' = <<Event("betsCleared")>>
         /\ calls' = made
         /\ chipDenominations' = st.chipDenominations
         /\ components' = st.components
  /\ UNCHANGED <<balance, history, lastResult, settings, isSpinning, stored, spin,
                 rounds, listeners>>

\* The reset-balance button at the table
TableReset ==
  LET newBalance == updateBalance(defaultBalance)
      made == emit(listeners, balanceChange(balance, newBalance))
      st == invoke(made, [chipDenominations |-> chipDenominations,
                          components |-> components],
                   getAvailableBalance(newBalance, currentBets))
  IN  /\ balance' = newBalance
      /\ stored' = saveBalance(stored, newBalance)
      /\ lastOp' = Op("resetBalance", "", <<>>, 0, TRUE, "", <<>>)
      /\ events' = <<balanceChange(balance, newBalance)>>
      /\ calls' = made
      /\ chipDenominations' = st.chipDenominations
      /\ components' = st.components
      /\ UNCHANGED <<currentBets, history, lastResult, settings, isSpinning, spin,
                     rounds, listeners>>

NextTable ==
  \/ ClickChip
  \/ ClickCell
  \/ TableUndo
  \/ TableClear
  \/ TableReset

SpecTable == InitTable /\ [][NextTable]_vars

-----------------------------------------------------------------------------
(* The validator and the payout engine called directly: each behaviour      *)
(* draws one call and its arguments, and the call returns                   *)

\* The 38 labels of the wheel.
wheelNumbers == {wheelOrder[i] : i \in 1..Len(wheelOrder)}

\* A call that has not returned yet.
Call(fn, type, numbers, amount, bets, spinNumber) ==
  [op |-> "call", fn |-> fn, type |-> type, numbers |-> numbers, amount |-> amount,
   bets |-> bets, spinNumber |-> spinNumber, result |-> <<>>]

\* The call, returned.
Returned(call, result) == [call EXCEPT !.op = call.fn, !.result = <<result>>]

\* validateBet('split', [a, b]) for every two labels of the wheel, in both
\* orders, equal ones included.
SplitInputs == {<<a, b>> : a, b \in wheelNumbers}

\* validateBet('corner', nums): every set of four labels of the wheel that
\* spans at most CornerSpan, smallest first, largest first and interleaved, and
\* every arrangement of four distinct numbers of 1..CornerWindow.
CornerSpan == 5

CornerWindow == 8

CornerSets ==
  {q \in {<<n, n + i, n + j, n + k>> : n \in wheelNumbers, i, j, k \in 1..CornerSpan} :
     q[2] < q[3] /\ q[3] < q[4] /\ q[4] \in wheelNumbers}

CornerInputs ==
  CornerSets
    \cup {<<q[4], q[3], q[2], q[1]>> : q \in CornerSets}
    \cup {<<q[2], q[4], q[1], q[3]>> : q \in CornerSets}
    \cup {q \in (1..CornerWindow) \X (1..CornerWindow) \X (1..CornerWindow)
                   \X (1..CornerWindow) :
              Cardinality({q[1], q[2], q[3], q[4]}) = 4}

\* Bets handed to calculateBetPayout: a straight bet on every label, one bet
\* of every other type, and a street over both zeros; at three stakes.
PayoutShapes ==
  {<<"straight", <<n>>>> : n \in wheelNumbers}
    \cup { <<"split", <<17, 18>>>>,
           <<"street", <<1, 2, 3>>>>,
           <<"street", <<0, DoubleZero, 2>>>>,
           <<"corner", <<1, 2, 4, 5>>>>,
           <<"line", <<1, 2, 3, 4, 5, 6>>>>,
           <<"dozen", betSetsDozen1>>,
           <<"column", betSetsColumn1>>,
           <<"red", betSetsRed>>,
           <<"black", betSetsBlack>>,
           <<"even", betSetsEven>>,
           <<"odd", betSetsOdd>>,
           <<"low", betSetsLow>>,
           <<"high", betSetsHigh>> }

PayoutAmounts == {minBet, 25, maxBet}

\* Bets that lists handed to calculateAllPayouts are made of, and the longest
\* list.
BetPool ==
  { <<"straight", <<17>>, 10>>,
    <<"straight", <<0>>, 1>>,
    <<"straight", <<DoubleZero>>, 1>>,
    <<"split", <<17, 18>>, 20>>,
    <<"red", betSetsRed, 5>>,
    <<"black", betSetsBlack, 1000>> }

MaxCallBets == 2

\* A bet of a type the catalog does not have, alone and beside a straight bet.
UncataloguedLists ==
  { <<createBet(1, "bogus", <<17>>, 10)>>,
    <<createBet(1, "straight", <<17>>, 10), createBet(2, "bogus", <<17, 18>>, 10)>> }

\* Red for 50 and Black for 50, as one ledger.
RedAndBlack ==
  <<createBet(1, "red", betSetsRed, 50), createBet(2, "black", betSetsBlack, 50)>>

BetLists ==
  {[i \in 1..Len(l) |-> createBet(i, l[i][1], l[i][2], l[i][3])] :
     l \in UNION {[1..n -> BetPool] : n \in 0..MaxCallBets}}

ListOutcomes == {0, DoubleZero, 17, 18, 2}

CallInputs ==
  {Call("validateBet", "split", nums, 0, <<>>, null) : nums \in SplitInputs}
    \cup {Call("validateBet", "corner", nums, 0, <<>>, null) : nums \in CornerInputs}
    \cup {Call("calculateBetPayout", sh[1], sh[2], a, <<>>, w) :
             sh \in PayoutShapes, a \in PayoutAmounts, w \in wheelNumbers}
    \cup {Call("calculateAllPayouts", "", <<>>, 0, bets, w) :
             bets \in BetLists, w \in ListOutcomes}
    \cup {Call("calculateAllPayouts", "", <<>>, 0, RedAndBlack, w) : w \in wheelNumbers}
    \cup {Call("calculateAllPayouts", "", <<>>, 0, bets, w) :
             bets \in UncataloguedLists, w \in ListOutcomes}
    \cup {Call("calculateHouseEdge", t, <<>>, 0, <<>>, null) :
             t \in DOMAIN betTypes \cup {"bogus"}}

InitCalls ==
  /\ balance = defaultBalance
  /\ currentBets = <<>>
  /\ history = <<>>
  /\ lastResult = null
  /\ isSpinning = FALSE
  /\ settings = defaultSettings
  /\ stored = EmptyStorage
  /\ spin = IdleSpin
  /\ rounds = 0
  /\ lastOp \in CallInputs
  /\ events = <<>>
  /\ CoreAlone

Pending(fn) == lastOp.op = "call" /\ lastOp.fn = fn

ValidateBet ==
  /\ Pending("validateBet")
  /\ lastOp' = Returned(lastOp, validateBet(lastOp.type, lastOp.numbers))
  /\ UNCHANGED <<ui, balance, currentBets, history, lastResult, settings, isSpinning, stored, spin,
                 rounds, events>>

CalculateBetPayout ==
  /\ Pending("calculateBetPayout")
  /\ lastOp' = Returned(lastOp,
                  calculateBetPayout(createBet(1, lastOp.type, lastOp.numbers, lastOp.amount),
                                     lastOp.spinNumber))
  /\ UNCHANGED <<ui, balance, currentBets, history, lastResult, settings, isSpinning, stored, spin,
                 rounds, events>>

CalculateAllPayouts ==
  /\ Pending("calculateAllPayouts")
  /\ lastOp' = Returned(lastOp, calculateAllPayouts(lastOp.bets, lastOp.spinNumber))
  /\ UNCHANGED <<ui, balance, currentBets, history, lastResult, settings, isSpinning, stored, spin,
                 rounds, events>>

CalculateHouseEdge ==
  /\ Pending("calculateHouseEdge")
  /\ lastOp' = Returned(lastOp, calculateHouseEdge(lastOp.type))
  /\ UNCHANGED <<ui, balance, currentBets, history, lastResult, settings, isSpinning, stored, spin,
                 rounds, events>>

NextCalls ==
  \/ ValidateBet
  \/ CalculateBetPayout
  \/ CalculateAllPayouts
  \/ CalculateHouseEdge

SpecCalls == InitCalls /\ [][NextCalls]_vars

-----------------------------------------------------------------------------
(* Properties                                                              *)

\* C1: the balance is never negative, after any sequence of placements,
\* removals, clears, doublings, repeats, spins, resets and direct calls of
\* updateBalance, addToBalance and subtractFromBalance with any amount.
C1_BalanceNeverNegative == balance >= 0

\* C1 witness: a direct subtraction of more than the balance left it at zero.
C1_FlooredSubtraction ==
  /\ lastOp.op = "subtractFromBalance"
  /\ events[1].oldBalance - lastOp.amount < 0
  /\ balance = 0

\* The state in which a round has just ended: spin() returned.
RoundEnded == lastOp.op = "spin:end"

\* C2: a round ends with the balance the spin was accepted at, minus the
\* stakes of the round, plus the returns credited, whatever other commands
\* ran while it was resolving.
C2_RoundConservesBalance ==
  RoundEnded =>
    balance = lastOp.before.balance - history[1].totalBet + history[1].totalWin

\* C3: a round of a single bet of amount a at multiplier m, accepted at balance
\* b and with no other command while it resolves, ends at b - a + (a + a*m)
\* with net profit a*m when the outcome is covered, and at b - a with net
\* profit -a when it is not.
C3_SingleBetRound ==
  (RoundEnded /\ ~lastOp.interleaved /\ Len(history[1].bets) = 1) =>
    LET b == lastOp.before.balance
        a == history[1].bets[1].amount
        m == betTypes[history[1].bets[1].type].payout
    IN  IF includes(history[1].bets[1].numbers, history[1].spinNumber)
        THEN balance = b - a + (a + a * m) /\ history[1].netProfit = a * m
        ELSE balance = b - a /\ history[1].netProfit = -a

\* C3 witness: from 1000, a straight bet of 10 on 17 and the outcome 17 ended
\* the round at 1350 with net profit 350.
C3_StraightWinExample ==
  /\ RoundEnded
  /\ ~lastOp.interleaved
  /\ lastOp.before.balance = 1000
  /\ balance = 1350
  /\ history[1].netProfit = 350
  /\ history[1].spinNumber = 17
  /\ Len(history[1].bets) = 1
  /\ history[1].bets[1].type = "straight"
  /\ history[1].bets[1].amount = 10

\* The eight checks of a placement as the specification words them, each TRUE
\* when the proposal fails it.
WheelLabels == (0..36) \cup {DoubleZero}

slotsOf(numbers) == {numbers[i] : i \in 1..Len(numbers)}

least(S) == CHOOSE n \in S : \A k \in S : n <= k

UnknownType(type) == type \notin DOMAIN betTypes

InvalidSlots(numbers) == numbers = <<>> \/ ~(slotsOf(numbers) \subseteq WheelLabels)

CountMismatch(type, numbers) == Len(numbers) # betTypes[type].numberCount

DuplicateSlots(numbers) == Cardinality(slotsOf(numbers)) # Len(numbers)

SplitAdjacent(S) ==
  /\ S \subseteq 1..36
  /\ \E a, b \in S : (b = a + 1 /\ a % 3 # 0) \/ b = a + 3

CornerBlock(S) ==
  /\ S \subseteq 1..36
  /\ LET n == least(S) IN n % 3 # 0 /\ n <= 32 /\ S = {n, n + 1, n + 3, n + 4}

BadGeometry(type, numbers) ==
  \/ type = "split" /\ ~SplitAdjacent(slotsOf(numbers))
  \/ type = "corner" /\ ~CornerBlock(slotsOf(numbers))

AmountOutOfRange(amount) == amount = NaN \/ amount < minBet \/ amount > maxBet

InsufficientBalance(bal, bets, amount) == bal - sumAmounts(bets) < amount

TableMaxExceeded(bets, amount) == sumAmounts(bets) + amount > tableMax

\* The number of the first check a proposal fails, in the specified order;
\* 0 when it passes all eight.
FirstFailing(bal, bets, type, numbers, amount) ==
  IF UnknownType(type) THEN 1
  ELSE IF InvalidSlots(numbers) THEN 2
  ELSE IF CountMismatch(type, numbers) THEN 3
  ELSE IF DuplicateSlots(numbers) THEN 4
  ELSE IF BadGeometry(type, numbers) THEN 5
  ELSE IF AmountOutOfRange(amount) THEN 6
  ELSE IF InsufficientBalance(bal, bets, amount) THEN 7
  ELSE IF TableMaxExceeded(bets, amount) THEN 8
  ELSE 0

\* The check a reported reason belongs to.
CheckOfReason(error) ==
  IF error = "Invalid bet type" THEN 1
  ELSE IF error \in {"Invalid numbers", "Invalid numbers: not on the wheel"} THEN 2
  ELSE IF error = "Wrong number count for bet type" THEN 3
  ELSE IF error = "Duplicate numbers are not allowed" THEN 4
  ELSE IF error \in {"Split bets are only supported for numbers 1-36",
                     "Split requires two adjacent numbers",
                     "Corner bets are only supported for numbers 1-36",
                     "Corner requires four numbers forming a 2x2 square"} THEN 5
  ELSE IF error \in {"Invalid bet amount", "Minimum bet is $1", "Maximum bet is $1000"}
  THEN 6
  ELSE IF error = "Insufficient balance" THEN 7
  ELSE IF error = "Table maximum is $10000" THEN 8
  ELSE 0

\* The last command was placeBet, doubleAllBets, repeatLastBets.
Placed == lastOp.op = "placeBet"
Doubled == lastOp.op = "doubleAllBets"
Repeated == lastOp.op = "repeatLastBets"

NoBetPlacedEvent(evs) == \A i \in 1..Len(evs) : evs[i].name # "betPlaced"

\* C4: a rejected placeBet returns a failure with a reason, leaves the ledger,
\* the balance and the history as they were, and emits no bet-placed
\* notification.
C4_RejectedPlacementChangesNothing ==
  (Placed /\ ~lastOp.success) =>
    /\ lastOp.error # ""
    /\ currentBets = lastOp.before.bets
    /\ balance = lastOp.before.balance
    /\ history = lastOp.before.history
    /\ NoBetPlacedEvent(events)

\* C4 witness: a placement was rejected on a table that holds bets, after a
\* round was recorded.
C4_RejectedOnStakedTable ==
  /\ lastOp.op = "placeBet"
  /\ ~lastOp.success
  /\ lastOp.error # ""
  /\ currentBets # <<>>
  /\ history # <<>>

\* C5: placeBet reports the reason of the first check the proposal fails, in
\* the order type, slots, count, duplicates, geometry, amount, balance, table
\* maximum, and accepts the bet exactly when it fails none.
C5_FirstFailingCheckReported ==
  Placed =>
    LET f == FirstFailing(lastOp.before.balance, lastOp.before.bets,
                          lastOp.type, lastOp.numbers, lastOp.amount)
    IN  /\ lastOp.success <=> f = 0
        /\ ~lastOp.success => CheckOfReason(lastOp.error) = f

\* C5 witness: a proposal that fails both the balance and the table-maximum
\* check was refused for its balance.
C5_BalanceBeforeTableMax ==
  /\ lastOp.op = "placeBet"
  /\ lastOp.error = "Insufficient balance"
  /\ TableMaxExceeded(currentBets, lastOp.amount)

\* C6: every bet in the ledger has a type of the catalog, the required number
\* of pairwise distinct wheel labels, a valid split or corner shape, and an
\* amount from minBet to maxBet.
C6_LedgerBetsValid ==
  \A i \in 1..Len(currentBets) :
     LET bet == currentBets[i]
     IN  /\ ~UnknownType(bet.type)
         /\ ~InvalidSlots(bet.numbers)
         /\ ~CountMismatch(bet.type, bet.numbers)
         /\ ~DuplicateSlots(bet.numbers)
         /\ ~BadGeometry(bet.type, bet.numbers)
         /\ ~AmountOutOfRange(bet.amount)

\* C6 witness: doubleAllBets added a copy of a split bet to the ledger.
C6_DoubledSplitInLedger ==
  /\ lastOp.op = "doubleAllBets"
  /\ lastOp.success
  /\ \E i \in 1..Len(lastOp.bets) :
        /\ lastOp.bets[i].type = "split"
        /\ \E j \in 1..Len(currentBets) : currentBets[j] = lastOp.bets[i]

\* bets a and b agree on type, slots and amount
sameBet(a, b) == a.type = b.type /\ a.numbers = b.numbers /\ a.amount = b.amount

\* C7: the stakes in the ledger never sum to more than tableMax; a placement
\* that passes the other checks is refused with the table-maximum reason when
\* it would bring the total above tableMax and accepted when it brings it to
\* tableMax or less.
C7_TableMaxRespected ==
  /\ sumAmounts(currentBets) <= tableMax
  /\ (Placed /\ FirstFailing(lastOp.before.balance, lastOp.before.bets, lastOp.type,
                             lastOp.numbers, lastOp.amount) \in {0, 8}) =>
       IF sumAmounts(lastOp.before.bets) + lastOp.amount > tableMax
       THEN /\ ~lastOp.success
            /\ lastOp.error = "Table maximum is $10000"
            /\ currentBets = lastOp.before.bets
       ELSE /\ lastOp.success
            /\ sumAmounts(currentBets) = sumAmounts(lastOp.before.bets) + lastOp.amount

\* C7 witness: on 9990 staked a placement of 10 was accepted, staking exactly
\* tableMax.
C7_StakedExactlyTableMax ==
  /\ lastOp.op = "placeBet"
  /\ lastOp.success
  /\ lastOp.amount = 10
  /\ sumAmounts(lastOp.before.bets) = 9990
  /\ sumAmounts(currentBets) = tableMax

\* C8: doubleAllBets either fails and leaves the ledger unchanged, or leaves
\* the original bets followed by one copy of each of them; never copies of only
\* some.
C8_DoubleAllOrNothing ==
  Doubled =>
    LET old == lastOp.before.bets
    IN  \/ ~lastOp.success /\ currentBets = old
        \/ /\ lastOp.success
           /\ Len(currentBets) = 2 * Len(old)
           /\ SubSeq(currentBets, 1, Len(old)) = old
           /\ \A i \in 1..Len(old) : sameBet(currentBets[Len(old) + i], old[i])
           /\ sumAmounts(currentBets) = 2 * sumAmounts(old)

\* C9: when balance - total staked < total staked, doubleAllBets fails with
\* the insufficient-balance reason and leaves the ledger and the balance
\* unchanged.
C9_UnaffordableDoubleChangesNothing ==
  LET old == lastOp.before.bets
      bal == lastOp.before.balance
  IN  (Doubled /\ bal - sumAmounts(old) < sumAmounts(old)) =>
        /\ ~lastOp.success
        /\ lastOp.error = "Insufficient balance to double bets"
        /\ currentBets = old
        /\ balance = bal

\* C9 witness: doubleAllBets was refused for the balance on a staked table.
C9_DoubleRefusedForBalance ==
  /\ lastOp.op = "doubleAllBets"
  /\ ~lastOp.success
  /\ lastOp.error = "Insufficient balance to double bets"
  /\ currentBets # <<>>
  /\ balance - sumAmounts(currentBets) < sumAmounts(currentBets)

NoHistoryReasons == {"No previous bets to repeat", "No bets in last spin"}

\* A history whose most recent entry records no bets.
EmptyRound == <<historyEntry(<<>>, 0, NoPayout)>>

\* C11: repeatLastBets fails with a no-history reason and changes neither the
\* ledger, the balance nor the history, and notifies nothing, when the history
\* is empty (initially or after clearHistory) or its most recent entry records
\* no bets.
C11_NothingToRepeat ==
  /\ (Repeated /\ (lastOp.before.history = <<>>
                     \/ lastOp.before.history[1].bets = <<>>)) =>
       /\ ~lastOp.success
       /\ lastOp.error \in NoHistoryReasons
       /\ currentBets = lastOp.before.bets
       /\ balance = lastOp.before.balance
       /\ history = lastOp.before.history
       /\ events = <<>>
  /\ \A hist \in {<<>>, EmptyRound} :
        LET r == repeatLastBets(balance, currentBets, hist, usedIds)
        IN  ~r.success /\ r.error \in NoHistoryReasons /\ r.bets = currentBets

\* C11 witness: after a round was played and the history cleared,
\* repeatLastBets was refused on a table that holds a bet.
C11_RepeatAfterClearHistory ==
  /\ lastOp.op = "repeatLastBets"
  /\ ~lastOp.success
  /\ lastOp.error = "No previous bets to repeat"
  /\ lastResult # null
  /\ history = <<>>
  /\ currentBets # <<>>

\* validateBet has returned for a bet of this type.
Validated(type) == lastOp.op = "validateBet" /\ lastOp.type = type

\* C12: validateBet accepts a split on two wheel labels exactly when both are
\* integers of 1..36 and, a being the smaller and b the larger, b = a + 1 with
\* a mod 3 # 0, or b = a + 3; the answer is the same for the two orders, and a
\* split containing 0 or 00 is refused. (14,17) and (17,18) are accepted,
\* (18,19) is refused.
C12_SplitGeometry ==
  /\ Validated("split") =>
       LET x == lastOp.numbers[1]
           y == lastOp.numbers[2]
           a == IF x <= y THEN x ELSE y
           b == IF x <= y THEN y ELSE x
           accepted == lastOp.result[1].valid
       IN  /\ accepted <=>
                 /\ x \in 1..36
                 /\ y \in 1..36
                 /\ a < b
                 /\ (b = a + 1 /\ a % 3 # 0) \/ b = a + 3
           /\ accepted <=> validateBet("split", <<y, x>>).valid
           /\ ({x, y} \cap {0, DoubleZero} # {}) => ~accepted
  /\ validateBet("split", <<14, 17>>).valid
  /\ validateBet("split", <<17, 18>>).valid
  /\ ~validateBet("split", <<18, 19>>).valid

\* C12 witness: the vertical split of 14 and 17 was accepted with the larger
\* number given first.
C12_VerticalSplitAccepted ==
  /\ lastOp.op = "validateBet"
  /\ lastOp.type = "split"
  /\ lastOp.numbers = <<17, 14>>
  /\ lastOp.result[1].valid

\* The 2x2 blocks of the table grid: two neighbouring rows, two neighbouring
\* columns.
GridBlocks ==
  {{tableLayoutGrid[r][c], tableLayoutGrid[r][c + 1],
    tableLayoutGrid[r + 1][c], tableLayoutGrid[r + 1][c + 1]} :
     r \in 1..(Len(tableLayoutGrid) - 1), c \in 1..(Len(tableLayoutGrid[1]) - 1)}

\* C13: validateBet accepts a corner on four distinct wheel labels exactly
\* when all are integers of 1..36 and, n being the smallest, n mod 3 # 0,
\* n <= 32 and the labels are n, n+1, n+3, n+4, in whatever order they are
\* given; the accepted corners are exactly the 2x2 blocks of the table grid.
\* {1,2,4,5} is accepted and {3,4,6,7} is refused.
C13_CornerGeometry ==
  /\ (Validated("corner") /\ Cardinality(slotsOf(lastOp.numbers)) = 4) =>
       LET S == slotsOf(lastOp.numbers)
           n == least(S)
           accepted == lastOp.result[1].valid
       IN  /\ accepted <=>
                 /\ S \subseteq 1..36
                 /\ n % 3 # 0
                 /\ n <= 32
                 /\ S = {n, n + 1, n + 3, n + 4}
           /\ accepted <=> S \in GridBlocks
  /\ \A B \in GridBlocks :
        \E n \in B : validateBet("corner", <<n, n + 1, n + 3, n + 4>>).valid
                       /\ B = {n, n + 1, n + 3, n + 4}
  /\ validateBet("corner", <<1, 2, 4, 5>>).valid
  /\ ~validateBet("corner", <<3, 4, 6, 7>>).valid

\* C13 witness: the block 2, 3, 5, 6 was accepted as a corner from an
\* interleaved order.
C13_CornerAcceptedUnordered ==
  /\ lastOp.op = "validateBet"
  /\ lastOp.type = "corner"
  /\ lastOp.numbers = <<3, 6, 2, 5>>
  /\ lastOp.result[1].valid

\* C14: for a bet of any type and any of the 38 outcomes, calculateBetPayout
\* reports a win exactly when the outcome is one of the bet's slots, 0 and 00
\* being different slots; a win returns amount + amount * payout(type) with
\* payout amount * payout(type), a loss returns 0 with payout 0.
C14_BetResolution ==
  lastOp.op = "calculateBetPayout" =>
    LET r == lastOp.result[1]
        a == lastOp.amount
        m == betTypes[lastOp.type].payout
        covered == lastOp.spinNumber \in slotsOf(lastOp.numbers)
    IN  /\ lastOp.spinNumber \in WheelLabels
        /\ r.isWinner <=> covered
        /\ covered => r.payout = a * m /\ r.totalReturn = a + a * m
        /\ ~covered => r.payout = 0 /\ r.totalReturn = 0
        /\ (lastOp.numbers = <<0>> /\ lastOp.spinNumber = DoubleZero) => ~r.isWinner
        /\ (lastOp.numbers = <<DoubleZero>> /\ lastOp.spinNumber = 0) => ~r.isWinner

\* C14 witness: a street of 25 over 0, 00 and 2 won on 00 and returned 300.
C14_StreetWonOnDoubleZero ==
  /\ lastOp.op = "calculateBetPayout"
  /\ lastOp.type = "street"
  /\ lastOp.numbers = <<0, DoubleZero, 2>>
  /\ lastOp.amount = 25
  /\ lastOp.spinNumber = DoubleZero
  /\ lastOp.result[1].isWinner
  /\ lastOp.result[1].totalReturn = 300

\* The sum of f[1], ..., f[n].
RECURSIVE SumTo(_, _)
SumTo(f, n) == IF n = 0 THEN 0 ELSE f[n] + SumTo(f, n - 1)

\* The identities of the bets of a list, in order.
idSeq(bets) == [i \in 1..Len(bets) |-> bets[i].id]

\* C15: calculateAllPayouts returns totalBet = the sum of all stakes, totalWin
\* = the sum of totalReturn over the winning bets, netProfit = totalWin -
\* totalBet; winningBets holds, in order and with their resolution, exactly the
\* bets that cover the outcome and losingBets the others, so every bet is in
\* exactly one of the two and their lengths add up to the number of bets.
C15_RoundTotals ==
  lastOp.op = "calculateAllPayouts" =>
    LET r == lastOp.result[1]
        bets == lastOp.bets
        covers(b) == lastOp.spinNumber \in slotsOf(b.numbers)
        win == r.winningBets
        lose == r.losingBets
    IN  /\ r.totalBet = SumTo([i \in 1..Len(bets) |-> bets[i].amount], Len(bets))
        /\ r.totalWin = SumTo([i \in 1..Len(win) |-> win[i].totalReturn], Len(win))
        /\ r.netProfit = r.totalWin - r.totalBet
        /\ Len(win) + Len(lose) = Len(bets)
        /\ r.betCount = Len(bets)
        /\ idSeq(win) = idSeq(SelectSeq(bets, covers))
        /\ idSeq(lose) = idSeq(SelectSeq(bets, LAMBDA b : ~covers(b)))
        /\ \A i \in 1..Len(win) :
              /\ win[i].isWinner
              /\ \E j \in 1..Len(bets) : win[i].id = bets[j].id /\ sameBet(win[i], bets[j])
        /\ \A i \in 1..Len(lose) :
              /\ ~lose[i].isWinner
              /\ lose[i].totalReturn = 0
              /\ \E j \in 1..Len(bets) : lose[i].id = bets[j].id /\ sameBet(lose[i], bets[j])

\* C15 witness: of a straight bet of 10 on 17 and a bet of 5 on red, the
\* outcome 17 made the first win and the second lose: 15 staked, 360
\* returned, net profit 345.
C15_OneWinnerOneLoser ==
  /\ lastOp.op = "calculateAllPayouts"
  /\ lastOp.spinNumber = 17
  /\ Len(lastOp.bets) = 2
  /\ lastOp.bets[1].type = "straight"
  /\ lastOp.bets[2].type = "red"
  /\ Len(lastOp.result[1].winningBets) = 1
  /\ Len(lastOp.result[1].losingBets) = 1
  /\ lastOp.result[1].totalBet = 15
  /\ lastOp.result[1].totalWin = 360
  /\ lastOp.result[1].netProfit = 345

\* |x| for an integer x
Abs(x) == IF x < 0 THEN -x ELSE x

\* C16: for every bet type of the catalog, the house edge
\* 100 * (trueOdds - payout) / (trueOdds + 1), trueOdds = (38 - numberCount) /
\* numberCount, is 200/38, which is within 0.01 of 5.26; and numberCount *
\* (payout + 1) = 36.
C16_HouseEdge ==
  /\ (lastOp.op = "calculateHouseEdge" /\ lastOp.type \in DOMAIN betTypes) =>
       LET e == lastOp.result[1]
       IN  /\ e.den > 0
           /\ e.num * 38 = 200 * e.den
           /\ Abs(100 * e.num - 526 * e.den) <= e.den
  /\ \A t \in DOMAIN betTypes : betTypes[t].numberCount * (betTypes[t].payout + 1) = 36

\* C16 witness: the house edge of the corner bet was computed, as 200/38.
C16_CornerEdgeComputed ==
  /\ lastOp.op = "calculateHouseEdge"
  /\ lastOp.type = "corner"
  /\ lastOp.result[1].num * 38 = 200 * lastOp.result[1].den

\* C17: after clearAllBets, whatever placements, doublings and repeats came
\* before, the ledger is empty and the total staked is 0, and the call returned
\* exactly the bets that were in the ledger, in order.
C17_ClearEmptiesLedger ==
  lastOp.op = "clearAllBets" =>
    /\ lastOp.success
    /\ currentBets = <<>>
    /\ Len(currentBets) = 0
    /\ sumAmounts(currentBets) = 0
    /\ lastOp.bets = lastOp.before.bets

\* C17 witness: after a round, a ledger of four bets (placed, repeated or
\* doubled) was cleared and returned.
C17_ClearedFourBets ==
  /\ lastOp.op = "clearAllBets"
  /\ history # <<>>
  /\ Len(lastOp.bets) = 4
  /\ currentBets = <<>>

\* The last command was removeBet or removeLastBet.
Removed == lastOp.op \in {"removeBet", "removeLastBet"}

without(bets, betId) == SelectSeq(bets, LAMBDA b : b.id # betId)

\* C19: removeLastBet removes and returns the newest bet of the ledger, and
\* fails with no change on an empty ledger; removeBet removes and returns
\* exactly the bet with the given identity, keeping the other bets in their
\* order, and fails with the not-found reason and no change when no bet has
\* it. Neither touches the balance or the history. The same holds of the two
\* functions applied to the ledger of any state, for each of its identities.
C19_RemovalSemantics ==
  LET old == lastOp.before.bets
  IN  /\ lastOp.op = "removeLastBet" =>
           /\ balance = lastOp.before.balance /\ history = lastOp.before.history
           /\ IF old = <<>>
              THEN ~lastOp.success /\ lastOp.error = "No bets to remove"
                   /\ currentBets = old /\ lastOp.bets = <<>>
              ELSE lastOp.success /\ lastOp.bets = <<old[Len(old)]>>
                   /\ currentBets = SubSeq(old, 1, Len(old) - 1)
      /\ lastOp.op = "removeBet" =>
           /\ balance = lastOp.before.balance /\ history = lastOp.before.history
           /\ IF lastOp.amount \notin idsOf(old)
              THEN ~lastOp.success /\ lastOp.error = "Bet not found"
                   /\ currentBets = old /\ lastOp.bets = <<>>
              ELSE lastOp.success
                   /\ Len(lastOp.bets) = 1
                   /\ lastOp.bets[1].id = lastOp.amount
                   /\ includes(old, lastOp.bets[1])
                   /\ currentBets = without(old, lastOp.amount)
                   /\ Len(currentBets) = Len(old) - 1
      /\ \A betId \in idsOf(currentBets) :
           LET r == removeBet(currentBets, betId)
           IN  r.success /\ r.removed[1].id = betId
               /\ r.bets = without(currentBets, betId)
               /\ Len(r.bets) = Len(currentBets) - 1
      /\ currentBets # <<>> =>
           removeLastBet(currentBets).bets = SubSeq(currentBets, 1, Len(currentBets) - 1)

\* C19 witness: of two bets the older one was removed by its identity and the
\* newer one stayed.
C19_RemovedOlderOfTwo ==
  /\ lastOp.op = "removeBet"
  /\ lastOp.success
  /\ Len(lastOp.before.bets) = 2
  /\ lastOp.bets = <<lastOp.before.bets[1]>>
  /\ currentBets = <<lastOp.before.bets[2]>>

\* The commands that act on the ledger.
LedgerOps ==
  {"placeBet", "removeBet", "removeLastBet", "clearAllBets", "doubleAllBets",
   "repeatLastBets"}

BalanceNotified(evs) == \E i \in 1..Len(evs) : evs[i].name = "balanceChange"

\* C20: placeBet, removeBet, removeLastBet, clearAllBets, doubleAllBets and
\* repeatLastBets, accepted or refused, leave the balance and the history as
\* they were and notify no balance change; the balance is written only by the debit of
\* the stakes when a spin starts, the credit of the returns when it resolves,
\* and resetBalance.
C20_LedgerOpsKeepBalance ==
  /\ lastOp.op \in LedgerOps =>
       /\ balance = lastOp.before.balance
       /\ history = lastOp.before.history
       /\ ~BalanceNotified(events)
  /\ BalanceNotified(events) => lastOp.op \in {"spin", "spin:settle", "resetBalance"}
  /\ (balance # lastOp.before.balance /\ ~RoundEnded) =>
       lastOp.op \in {"spin", "spin:settle", "resetBalance"}

\* C20 witness: after a won round, the bets of the round were repeated and
\* the balance stayed at its value, 1350.
C20_RepeatKeptBalance ==
  /\ lastOp.op = "repeatLastBets"
  /\ lastOp.success
  /\ history # <<>>
  /\ lastOp.before.balance = 1350
  /\ balance = 1350
  /\ currentBets # <<>>

-----------------------------------------------------------------------------
(* Claims C21..C30: history, rounds and persistence                         *)

\* Commands that do not go through addToHistory or clearHistory.
KeepsHistory == lastOp.op \notin {"init", "call", "spin:end", "clearHistory", "reload"}

\* C21: the history never holds more than maxEntries (50) entries and is
\* ordered newest first: a completed round puts its entry at index 0 (here 1),
\* keeps the earlier entries as they were and in their order, and drops only
\* the oldest ones beyond maxEntries; apart from that eviction only
\* clearHistory removes entries, every other command leaves the history alone.
C21_HistoryBounded ==
  /\ Len(history) <= maxEntries
  /\ lastOp.op = "spin:end" =>
       LET old == lastOp.before.history
           kept == IF Len(old) < maxEntries THEN Len(old) ELSE maxEntries - 1
       IN  /\ Len(history) = kept + 1
           /\ history[1].bets = lastOp.before.bets
           /\ history[1].spinNumber = lastResult
           /\ \A i \in 1..kept : history[i + 1] = old[i]
  /\ lastOp.op = "clearHistory" => history = <<>>
  /\ KeepsHistory => history = lastOp.before.history

\* C21 witness: a round ended on a full history; its entry is first and the
\* oldest entry is gone, the second oldest being last now.
C21_OldestEvicted ==
  /\ lastOp.op = "spin:end"
  /\ Len(lastOp.before.history) = maxEntries
  /\ Len(history) = maxEntries
  /\ history[1].bets = lastOp.before.bets
  /\ history[maxEntries] = lastOp.before.history[maxEntries - 1]
  /\ history[maxEntries] # lastOp.before.history[maxEntries]

\* C22: the history entry of a round holds the bets that were in the ledger
\* when the spin was accepted, totalBet is the amount the balance was debited
\* at spin start, totalWin the amount it was credited, netProfit is
\* totalWin - totalBet, and the entry keeps its bets although the ledger has
\* been cleared since.
C22_EntryRecordsRound ==
  lastOp.op = "spin:end" =>
    /\ history[1].bets = lastOp.before.bets
    /\ history[1].bets # currentBets
    /\ history[1].totalBet = lastOp.debited
    /\ history[1].totalWin = lastOp.credited
    /\ history[1].netProfit = history[1].totalWin - history[1].totalBet

\* C23: at most one round is in progress: a spin command issued while
\* isSpinning is true is rejected and changes neither the balance, the ledger,
\* the history nor isSpinning, so an accepted spin always starts from a state
\* where no round is running, the previous one having ended.
C23_OneRoundAtATime ==
  /\ isSpinning <=> spin.pc # "idle"
  /\ (lastOp.op = "spin" /\ lastOp.before.isSpinning) =>
       /\ ~lastOp.success
       /\ isSpinning
       /\ balance = lastOp.before.balance
       /\ currentBets = lastOp.before.bets
       /\ history = lastOp.before.history
       /\ events = <<>>
  /\ (lastOp.op = "spin" /\ lastOp.success) =>
       /\ ~lastOp.before.isSpinning
       /\ spin.pc = "playSpin"

\* C23 witness: a spin command was rejected while the wheel of the running
\* round was turning.
C23_SpinRejectedMidRound ==
  /\ lastOp.op = "spin"
  /\ lastOp.before.isSpinning
  /\ ~lastOp.success
  /\ spin.pc = "wheel"

\* C25: a spin command issued with an empty ledger (nothing staked) is
\* rejected: isSpinning stays false, the balance and the history are unchanged
\* and no spinStart notification is emitted.
C25_EmptySpinRejected ==
  (lastOp.op = "spin" /\ lastOp.before.bets = <<>>) =>
    /\ sumAmounts(lastOp.before.bets) = 0
    /\ ~lastOp.success
    /\ lastOp.error = "Place at least one bet"
    /\ ~lastOp.before.isSpinning
    /\ ~isSpinning
    /\ spin.pc = "idle"
    /\ balance = lastOp.before.balance
    /\ history = lastOp.before.history
    /\ \A i \in 1..Len(events) : events[i].name # "spinStart"

\* C25 witness: a spin was refused on the empty ledger, the balance still
\* being the default one.
C25_SpinRefusedOnEmptyLedger ==
  /\ lastOp.op = "spin"
  /\ lastOp.before.bets = <<>>
  /\ ~lastOp.success
  /\ balance = defaultBalance
  /\ ~isSpinning

CoreResultInMemory ==
  /\ (lastOp.op = "placeBet" /\ lastOp.success) =>
       currentBets = lastOp.before.bets \o lastOp.bets
  /\ (lastOp.op = "spin" /\ lastOp.success) =>
       /\ isSpinning
       /\ balance = Max(0, lastOp.before.balance - sumAmounts(lastOp.before.bets))
  /\ lastOp.op = "resetBalance" => balance = defaultBalance
  /\ lastOp.op = "spin:end" =>
       /\ history # <<>>
       /\ history[1].bets = lastOp.before.bets
       /\ ~isSpinning

\* C27: when storage is unavailable every core operation (place, spin, balance
\* update, history append) completes with the in-memory result it has with
\* working storage, and the unavailability is reported at most once in the
\* session, not on every write.
C27_StorageFailureReportedOnce ==
  ~isStorageAvailable(stored) =>
    /\ CoreResultInMemory
    /\ stored.warnings <= 1

\* The entry of the running round is not in the history.
NotAppended == \A i \in 1..Len(history) : history[i].bets # spin.bets

\* C28: the steps of a round happen in this order, each once: round started
\* (isSpinning set, spinStart), debit of the stakes, outcome draw, payout
\* computation, credit of the total returned, history append, clearing of the
\* ledger, round ended (isSpinning reset, spinEnd). At each await of spin() the
\* steps before it are done and the ones after it are not; when isSpinning
\* becomes false the ledger is empty and the newest history entry is the one
\* of this round.
C28_RoundStepOrder ==
  /\ (lastOp.op = "spin" /\ lastOp.success) =>
       /\ Len(events) = 2
       /\ events[1].name = "spinStart"
       /\ events[2].name = "balanceChange"
       /\ events[2].oldBalance = lastOp.before.balance
       /\ spin.pc = "playSpin"
  /\ spin.pc = "playSpin" =>
       /\ isSpinning
       /\ spin.debited = spin.accepted - Max(0, spin.accepted - sumAmounts(spin.bets))
       /\ spin.result = null
       /\ spin.payout = NoPayout
       /\ spin.credited = 0
       /\ NotAppended
       /\ currentBets = spin.bets
  /\ spin.pc = "wheel" =>
       /\ isSpinning
       /\ includes(wheelOrder, spin.result)
       /\ spin.payout = NoPayout
       /\ spin.credited = 0
       /\ NotAppended
       /\ currentBets = spin.bets
  /\ spin.pc = "playWinLose" =>
       /\ isSpinning
       /\ spin.payout = totals(calculateAllPayouts(spin.bets, spin.result))
       /\ spin.credited = spin.payout.totalWin
       /\ NotAppended
       /\ currentBets = spin.bets
  /\ lastOp.op = "spin:end" =>
       /\ ~isSpinning
       /\ spin.pc = "idle"
       /\ currentBets = <<>>
       /\ history[1].bets = lastOp.before.bets
       /\ history[1].spinNumber = lastResult
       /\ history[1].totalWin = lastOp.credited
       /\ \A i \in 2..Len(history) : history[i].bets # history[1].bets
       /\ events = <<Event("historyUpdate"), Event("betsCleared"), Event("spinEnd")>>

\* C28 witness: a round with a winning bet went through all its steps with no
\* other command in between: debited, credited, entry first, ledger empty.
C28_WinningRoundCompleted ==
  /\ lastOp.op = "spin:end"
  /\ ~lastOp.interleaved
  /\ lastOp.debited > 0
  /\ lastOp.credited > 0
  /\ balance = lastOp.before.balance - lastOp.debited + lastOp.credited
  /\ history[1].totalWin = lastOp.credited
  /\ currentBets = <<>>
  /\ ~isSpinning

\* C29: every round that starts runs to completion: once a spin is accepted
\* (isSpinning true), and as long as the sound and the animation it awaits
\* return, eventually its history entry is appended, the ledger is cleared and
\* isSpinning is false again; isSpinning never stays true forever.
C29_RoundRunsToCompletion ==
  isSpinning ~> (/\ ~isSpinning
                 /\ lastOp.op = "spin:end"
                 /\ currentBets = <<>>
                 /\ history # <<>>
                 /\ history[1].bets = lastOp.before.bets)

\* C29 witness: a round completed although other commands (reset-balance,
\* clear-history) ran while it was resolving.
C29_DisturbedRoundCompleted ==
  /\ lastOp.op = "spin:end"
  /\ lastOp.interleaved
  /\ ~isSpinning
  /\ Len(history) = 1

\* C30: the credit and the history append of a round do not wait on the spin
\* animation or the sound: while the wheel's animation is running (it may
\* never complete) the round's payout has been credited and its entry is in
\* the history, both persisted; and after a reload during the animation the
\* new session has the entry and the credited balance.
C30_RoundDurableBeforeAnimation ==
  /\ (spin.pc = "wheel" /\ isStorageAvailable(stored)) =>
       LET won == calculateAllPayouts(spin.bets, spin.result).totalWin
       IN  /\ history # <<>>
           /\ history[1].bets = spin.bets
           /\ loadHistory(stored) = history
           /\ spin.credited = won
           /\ loadBalance(stored) = balance
  /\ (lastOp.op = "reload" /\ lastOp.type = "wheel" /\ isStorageAvailable(stored)) =>
       LET won == calculateAllPayouts(lastOp.bets, lastOp.numbers[1]).totalWin
       IN  /\ history # <<>>
           /\ history[1].bets = lastOp.bets
           /\ won > 0 => balance > lastOp.before.balance

-----------------------------------------------------------------------------
(* Claims C31..C39                                                          *)

\* C31: whenever no round is in progress the total staked in the ledger is at
\* most the balance, after any sequence of place, remove, clear, double,
\* repeat, completed spins and resetBalance; so the debit at spin start is
\* never truncated by the floor at zero.
C31_StakesWithinBalance ==
  /\ ~isSpinning => sumAmounts(currentBets) <= balance
  /\ (lastOp.op = "spin" /\ lastOp.success) =>
       balance = lastOp.before.balance - sumAmounts(lastOp.before.bets)

\* C32: repeatLast measures affordability against the ledger as it is after
\* clearing: whenever the most recent history entry has bets whose stakes sum
\* to at most the balance, repeatLastBets succeeds, whatever bets are in the
\* ledger.
C32_RepeatIgnoresCurrentLedger ==
  (/\ lastOp.op = "repeatLastBets"
   /\ lastOp.before.history # <<>>
   /\ lastOp.before.history[1].bets # <<>>
   /\ sumAmounts(lastOp.before.history[1].bets) <= lastOp.before.balance)
  => /\ lastOp.success
     /\ sumAmounts(currentBets) = sumAmounts(lastOp.before.history[1].bets)

\* The numbers of a bet set.
setOf(seq) == {seq[i] : i \in 1..Len(seq)}

\* C33: with Red for 50 and Black for 50 in the ledger (100 staked), for every
\* outcome at most one of the two wins: exactly one on any of 1..36 (100
\* returned, netProfit 0), none on 0 or '00' (netProfit -100); the red and
\* black sets are disjoint and together cover exactly 1..36.
C33_RedAndBlack ==
  /\ setOf(betSetsRed) \cap setOf(betSetsBlack) = {}
  /\ setOf(betSetsRed) \cup setOf(betSetsBlack) = 1..36
  /\ (lastOp.op = "calculateAllPayouts" /\ lastOp.bets = RedAndBlack) =>
       LET r == lastOp.result[1]
       IN  /\ r.totalBet = 100
           /\ Len(r.winningBets) <= 1
           /\ Len(r.winningBets) + Len(r.losingBets) = 2
           /\ lastOp.spinNumber \in 1..36 =>
                /\ Len(r.winningBets) = 1
                /\ r.winningBets[1].type =
                     (IF includes(betSetsRed, lastOp.spinNumber) THEN "red" ELSE "black")
                /\ r.totalWin = 100
                /\ r.netProfit = 0
           /\ lastOp.spinNumber \in {0, DoubleZero} =>
                /\ r.winningBets = <<>>
                /\ r.totalWin = 0
                /\ r.netProfit = -100

\* C33 witness: Red and Black were settled on 17, a black number: Black won,
\* Red lost, 100 came back.
C33_BlackWonOn17 ==
  /\ lastOp.op = "calculateAllPayouts"
  /\ lastOp.bets = RedAndBlack
  /\ lastOp.spinNumber = 17
  /\ lastOp.result[1].winningBets[1].type = "black"
  /\ lastOp.result[1].losingBets[1].type = "red"
  /\ lastOp.result[1].totalWin = 100

\* The bets of a list whose type is in the catalog.
Catalogued(bets) == SelectSeq(bets, LAMBDA b : b.type \in DOMAIN betTypes)

\* C34: a bet whose type is not in the catalog and that reaches the payout
\* engine is rejected rather than settled: calculateBetPayout and
\* calculateAllPayouts never report it as a winner nor return any amount for
\* it, so the total returned is the one of the catalogued bets alone.
C34_UncataloguedBetNotSettled ==
  lastOp.op = "calculateAllPayouts" =>
    LET r == lastOp.result[1]
    IN  /\ \A i \in 1..Len(r.winningBets) : r.winningBets[i].type \in DOMAIN betTypes
        /\ \A i \in 1..Len(lastOp.bets) :
             lastOp.bets[i].type \notin DOMAIN betTypes =>
               LET one == calculateBetPayout(lastOp.bets[i], lastOp.spinNumber)
               IN  ~one.isWinner /\ one.totalReturn = 0
        /\ r.totalWin = sumReturns(Catalogued(lastOp.bets), lastOp.spinNumber)

\* C35: every accepted placement gets a fresh identity: no two bets that are
\* in the ledger at the same time share an id, so a removal by id removes the
\* bet the caller meant and no bet with that id stays behind.
C35_FreshIdentities ==
  /\ \A i, j \in 1..Len(currentBets) :
       i # j => currentBets[i].id # currentBets[j].id
  /\ (lastOp.op = "removeBet" /\ lastOp.success) =>
       lastOp.amount \notin idsOf(currentBets)

\* The invocations the claim describes for one notification: one per
\* registration for that event, in registration order, each with its data.
InRegistrationOrder(data) ==
  [k \in 1..Len(listeners[data.name]) |-> [callback |-> listeners[data.name][k], data |-> data]]

BalanceMutators == {"updateBalance", "addToBalance", "subtractFromBalance", "resetBalance"}

\* C36: each emitted notification is delivered within the emitting command
\* to every listener registered for that event, once per registration and in
\* registration order (and to no listener of another event); every balance
\* mutator emits one balance-changed notification whose change field equals
\* newBalance - oldBalance.
C36_DeliveredInRegistrationOrder ==
  /\ events = <<>> => calls = <<>>
  /\ Len(events) = 1 => calls = InRegistrationOrder(events[1])
  /\ lastOp.op \in BalanceMutators =>
       /\ Len(events) = 1
       /\ events[1].name = "balanceChange"
       /\ events[1].oldBalance = lastOp.before.balance
       /\ events[1].newBalance = balance
       /\ events[1].change = balance - lastOp.before.balance

\* C36 witness: a debit floored at zero was delivered to two different
\* callbacks registered for balanceChange, first registered first, while a
\* callback registered for spinEnd was not invoked.
C36_TwoListenersNotified ==
  /\ lastOp.op = "subtractFromBalance"
  /\ lastOp.before.balance = 1000
  /\ balance = 0
  /\ listeners["balanceChange"] = <<"g", "f">>
  /\ listeners["spinEnd"] # <<>>
  /\ Len(calls) = 2
  /\ calls[1].callback = "g"
  /\ calls[2].data.change = -1000

\* C38: clicking the '2 to 1' cell displayed beside grid row r places a
\* column bet covering exactly the twelve numbers shown in that grid row.
C38_LabelCoversItsRow ==
  (lastOp.op = "cellClick" /\ lastOp.cell.type = "column" /\ lastOp.success) =>
     /\ lastOp.bets[1].type = "column"
     /\ setOf(lastOp.bets[1].numbers) = setOf(tableLayoutGrid[lastOp.cell.gridRow])

\* The largest denomination that is <= the available balance, or none.
largestAffordable(available) ==
  LET affordable == {v \in setOf(configuredChipDenominations) : v <= available}
  IN  IF affordable = {} THEN null
      ELSE CHOOSE v \in affordable : \A w \in affordable : w <= v

\* C39: the rule configuration is never modified after startup
\* (chipDenominations stays [1, 5, 10, 25, 100, 500]), and whenever the
\* selected chip becomes unaffordable the chip selector switches to the
\* largest denomination that is <= the available balance, or to none.
C39_ConfigurationFixed ==
  /\ [](chipDenominations = <<1, 5, 10, 25, 100, 500>>)
  /\ [][ (/\ components.chipSelector.selectedChip # null
          /\ components.chipSelector.selectedChip >
               getAvailableBalance(balance', currentBets'))
         => components'.chipSelector.selectedChip =
               largestAffordable(getAvailableBalance(balance', currentBets')) ]_vars

\* A record the load falls back on its default for: storage is not
\* available, the item is absent, or its text is not JSON.
Defaulted(key) ==
  \/ ~stored.available
  \/ stored.items[key] = NoItem
  \/ stored.items[key] = CorruptItem

\* C37: loading never throws: when the record is absent, the stored JSON is
\* corrupted or storage is unavailable, the game state is constructed from
\* the default (balance 1000, empty history, sound enabled at normal speed).
C37_LoadFallsBackOnDefaults ==
  lastOp.op \in {"init", "reload"} =>
     /\ Defaulted("roulette-balance") => balance = 1000
     /\ Defaulted("roulette-history") => history = <<>>
     /\ Defaulted("roulette-settings") =>
          settings = [soundEnabled |-> TRUE, animationSpeed |-> "normal"]

\* C37 witness: the page was reloaded after a lost round over a storage that
\* held corrupted items: the balance and the history come from what the
\* round saved, the settings item is still corrupted and the defaults stand.
C37_ReloadedOverCorruptSettings ==
  /\ lastOp.op = "reload"
  /\ stored.items["roulette-settings"] = CorruptItem
  /\ stored.items["roulette-balance"] # CorruptItem
  /\ balance < 1000
  /\ Len(history) = 1
  /\ settings = defaultSettings

====
